---- MODULE Spec2Model ----
(***************************************************************************)
(* Text pseudonymization engine (mcp-textpseudomizer): entity mapping      *)
(* sessions, cross-detector overlap resolution and offset-based            *)
(* replacement.  Python strings are sequences of one-character strings;    *)
(* confidences are integers in hundredths (0.8 is 80).                     *)
(***************************************************************************)
EXTENDS Integers, Sequences, FiniteSets, TLC

VARIABLES
    sessions,   \* MappingSessionManager._sessions: ordered dict id -> EntityMapper
    pc,         \* "idle": no request in progress; "returned": a response is pending
    call,       \* the operation last invoked, with its arguments and environment
    result,     \* what that operation returned
    issued,     \* history: per stored session, the (entity, pseudonym) resolutions
    created,    \* history: per stored session, the keys created, in creation order
    ncalls,     \* history: the number of requests served (SpecText only)
    models,     \* NERPipeline._models: dict language -> loaded model
    loads       \* history: per language, the models loaded since the last unload

vars == <<sessions, pc, call, result, issued, created, ncalls, models, loads>>

(***************************************************************************)
(* Bounds of the model.                                                    *)
(***************************************************************************)
MaxMappings == 2
MaxCalls == 1
MaxPos == 2
MaxSpans == 3

(***************************************************************************)
(* Python str primitives used by the code.                                 *)
(***************************************************************************)
UpperLetters ==
    <<"A","B","C","D","E","F","G","H","I","J","K","L","M",
      "N","O","P","Q","R","S","T","U","V","W","X","Y","Z">>
LowerLetters ==
    <<"a","b","c","d","e","f","g","h","i","j","k","l","m",
      "n","o","p","q","r","s","t","u","v","w","x","y","z">>
Digits == <<"0","1","2","3","4","5","6","7","8","9">>

Range(s) == {s[i] : i \in DOMAIN s}
IndexOf(s, c) == CHOOSE i \in DOMAIN s : s[i] = c

IsUpperChar(c) == c \in Range(UpperLetters)
IsLowerChar(c) == c \in Range(LowerLetters)
IsCasedChar(c) == IsUpperChar(c) \/ IsLowerChar(c)
IsDigitChar(c) == c \in Range(Digits)
IsSpaceChar(c) == c = " "

LowerChar(c) == IF IsUpperChar(c) THEN LowerLetters[IndexOf(UpperLetters, c)] ELSE c
UpperChar(c) == IF IsLowerChar(c) THEN UpperLetters[IndexOf(LowerLetters, c)] ELSE c

\* str.lower() / str.upper()
Lower(s) == [i \in DOMAIN s |-> LowerChar(s[i])]
Upper(s) == [i \in DOMAIN s |-> UpperChar(s[i])]

\* str.title(): a cased character is upper-cased after an uncased one (or at the
\* start) and lower-cased after a cased one.
Title(s) ==
    [i \in DOMAIN s |->
        IF i = 1 \/ ~IsCasedChar(s[i - 1]) THEN UpperChar(s[i]) ELSE LowerChar(s[i])]

\* str.strip(): drop leading and trailing whitespace.
RECURSIVE LStrip(_)
LStrip(s) == IF s # <<>> /\ IsSpaceChar(Head(s)) THEN LStrip(Tail(s)) ELSE s
RECURSIVE RStrip(_)
RStrip(s) ==
    IF s # <<>> /\ IsSpaceChar(s[Len(s)]) THEN RStrip(SubSeq(s, 1, Len(s) - 1)) ELSE s
Strip(s) == RStrip(LStrip(s))

\* str.isupper() / str.islower(): at least one cased character, all of one case.
IsUpperStr(s) ==
    /\ \E i \in DOMAIN s : IsCasedChar(s[i])
    /\ \A i \in DOMAIN s : ~IsLowerChar(s[i])
IsLowerStr(s) ==
    /\ \E i \in DOMAIN s : IsCasedChar(s[i])
    /\ \A i \in DOMAIN s : ~IsUpperChar(s[i])
\* str.istitle(): upper-case characters only after uncased ones, lower-case
\* characters only after cased ones, and at least one cased character.
IsTitleStr(s) ==
    /\ \E i \in DOMAIN s : IsCasedChar(s[i])
    /\ \A i \in DOMAIN s :
        /\ IsUpperChar(s[i]) => (i = 1 \/ ~IsCasedChar(s[i - 1]))
        /\ IsLowerChar(s[i]) => (i > 1 /\ IsCasedChar(s[i - 1]))

\* `not t.strip()`
IsBlank(s) == Strip(s) = <<>>

\* str(n) for n >= 0
RECURSIVE IntToStr(_)
IntToStr(n) ==
    IF n < 10 THEN <<Digits[n + 1]>> ELSE IntToStr(n \div 10) \o <<Digits[(n % 10) + 1]>>

\* s.split("_")[-1]: the part after the last underscore (all of s without one)
RECURSIVE SplitLast(_)
SplitLast(s) ==
    IF \E i \in DOMAIN s : s[i] = "_" THEN SplitLast(Tail(s)) ELSE s

\* int(s): optional sign and decimal digits, surrounding whitespace ignored;
\* anything else raises ValueError.
IntDigits(s) ==
    LET t == Strip(s) IN
    IF t # <<>> /\ Head(t) \in {"+", "-"} THEN Tail(t) ELSE t
IsIntLiteral(s) ==
    /\ IntDigits(s) # <<>>
    /\ \A i \in DOMAIN IntDigits(s) : IsDigitChar(IntDigits(s)[i])
RECURSIVE DigitsValue(_)
DigitsValue(d) ==
    IF d = <<>> THEN 0
    ELSE 10 * DigitsValue(SubSeq(d, 1, Len(d) - 1)) + (IndexOf(Digits, d[Len(d)]) - 1)
StrToInt(s) ==
    IF Strip(s) # <<>> /\ Head(Strip(s)) = "-"
    THEN 0 - DigitsValue(IntDigits(s))
    ELSE DigitsValue(IntDigits(s))

\* list.sort(key=...) / sorted(...): stable, ascending in the key `start`
RECURSIVE InsertByStart(_, _)
InsertByStart(sorted, e) ==
    IF sorted = <<>> THEN <<e>>
    ELSE IF sorted[Len(sorted)].start <= e.start THEN Append(sorted, e)
    ELSE Append(InsertByStart(SubSeq(sorted, 1, Len(sorted) - 1), e), sorted[Len(sorted)])
RECURSIVE SortByStart(_)
SortByStart(s) ==
    IF s = <<>> THEN <<>>
    ELSE InsertByStart(SortByStart(SubSeq(s, 1, Len(s) - 1)), s[Len(s)])

\* sorted(..., key=start, reverse=True): stable, descending in `start`
RECURSIVE InsertByStartDesc(_, _)
InsertByStartDesc(sorted, e) ==
    IF sorted = <<>> THEN <<e>>
    ELSE IF sorted[Len(sorted)].start >= e.start THEN Append(sorted, e)
    ELSE Append(InsertByStartDesc(SubSeq(sorted, 1, Len(sorted) - 1), e),
                sorted[Len(sorted)])
\* ascending order in place of descending, for comparison
SortByStartAsc(s) == SortByStart(s)

RECURSIVE SortByStartDesc(_)
SortByStartDesc(s) ==
    IF s = <<>> THEN <<>>
    ELSE InsertByStartDesc(SortByStartDesc(SubSeq(s, 1, Len(s) - 1)), s[Len(s)])

(***************************************************************************)
(* Entity labels and pseudonym prefixes.                                   *)
(***************************************************************************)
PER == <<"P","E","R">>
LOC == <<"L","O","C">>
ORG == <<"O","R","G">>
MISC == <<"M","I","S","C">>
DATE == <<"D","A","T","E">>
EMAIL == <<"E","M","A","I","L">>
PHONE == <<"P","H","O","N","E">>
ID == <<"I","D">>
IBAN == <<"I","B","A","N">>
LICENSE == <<"L","I","C","E","N","S","E">>
PERSON == <<"P","E","R","S","O","N">>
LOCATION == <<"L","O","C","A","T","I","O","N">>
ORGANIZATION == <<"O","R","G","A","N","I","Z","A","T","I","O","N">>

(***************************************************************************)
(* Overlap resolution.  An entity is [text, label, start, end, confidence].*)
(***************************************************************************)

\* ner_pipeline.py, merge_overlapping_entities: compare each entity, in start
\* order, with the last one kept.
MergeLastStep(merged, entity) ==
    IF merged = <<>> THEN <<entity>>
    ELSE LET last_entity == merged[Len(merged)] IN
         IF entity.start < last_entity.end
         THEN IF entity.confidence > last_entity.confidence
              THEN [merged EXCEPT ![Len(merged)] = entity]
              ELSE IF /\ entity.confidence = last_entity.confidence
                      /\ Len(entity.text) > Len(last_entity.text)
                   THEN [merged EXCEPT ![Len(merged)] = entity]
                   ELSE merged
         ELSE Append(merged, entity)
RECURSIVE MergeLastLoop(_, _)
MergeLastLoop(merged, rest) ==
    IF rest = <<>> THEN merged
    ELSE MergeLastLoop(MergeLastStep(merged, Head(rest)), Tail(rest))

merge_overlapping_entities(entities) ==
    IF entities = <<>> THEN entities ELSE MergeLastLoop(<<>>, SortByStart(entities))

\* extended_patterns.py, _remove_overlaps: the same walk over the pattern spans.
_remove_overlaps(entities) ==
    IF entities = <<>> THEN entities ELSE MergeLastLoop(<<>>, SortByStart(entities))

\* pseudonymizer.py, _combine_entities: `not (end <= existing_start or start >= existing_end)`
EntitiesOverlap(entity, existing) ==
    ~(entity.end <= existing.start \/ entity.start >= existing.end)

\* index of the first kept entity that overlaps `entity` (0: none); the inner
\* loop breaks there.
FirstOverlap(filtered_entities, entity) ==
    IF \E i \in DOMAIN filtered_entities : EntitiesOverlap(entity, filtered_entities[i])
    THEN CHOOSE i \in DOMAIN filtered_entities :
            /\ EntitiesOverlap(entity, filtered_entities[i])
            /\ \A j \in 1..(i - 1) : ~EntitiesOverlap(entity, filtered_entities[j])
    ELSE 0

CombineStep(filtered_entities, entity) ==
    LET i == FirstOverlap(filtered_entities, entity) IN
    IF i = 0 THEN Append(filtered_entities, entity)
    ELSE IF entity.confidence > filtered_entities[i].confidence
         THEN [filtered_entities EXCEPT ![i] = entity]
         ELSE IF /\ entity.confidence = filtered_entities[i].confidence
                 /\ Len(entity.text) > Len(filtered_entities[i].text)
              THEN [filtered_entities EXCEPT ![i] = entity]
              ELSE filtered_entities
RECURSIVE CombineLoop(_, _)
CombineLoop(filtered_entities, rest) ==
    IF rest = <<>> THEN filtered_entities
    ELSE CombineLoop(CombineStep(filtered_entities, Head(rest)), Tail(rest))

\* the sort and the overlap walk of _combine_entities, on the concatenated list
\* the overlap loop fed in input order, for comparison
ResolveOverlapsUnsorted(all_entities) == CombineLoop(<<>>, all_entities)

ResolveOverlaps(all_entities) == CombineLoop(<<>>, SortByStart(all_entities))

\* the (text, label, start, end) tuples returned
Simplify(filtered_entities) ==
    [i \in DOMAIN filtered_entities |->
        [text |-> filtered_entities[i].text, label |-> filtered_entities[i].label,
         start |-> filtered_entities[i].start, end |-> filtered_entities[i].end]]

_combine_entities(ner_entities, extended_entities) ==
    Simplify(ResolveOverlaps(ner_entities \o extended_entities))

(***************************************************************************)
(* Inputs of the overlap-resolution specification: spans over a source     *)
(* text of MaxPos characters, at most MaxSpans spans in all.               *)
(***************************************************************************)
MergeText == [i \in 1..MaxPos |-> LowerLetters[i]]

SpanRanges == {r \in (0..MaxPos) \X (0..MaxPos) : r[1] < r[2]}

MkEntity(r, label, confidence) ==
    [text |-> SubSeq(MergeText, r[1] + 1, r[2]), label |-> label,
     start |-> r[1], end |-> r[2], confidence |-> confidence]

\* recognizer spans (the fallback matcher reports 0.8 for every span) and
\* pattern spans (EMAIL is reported with 0.95)
NerUniverse == {MkEntity(r, l, 80) : r \in SpanRanges, l \in {PER, LOC}}
ExtUniverse == {MkEntity(r, EMAIL, 95) : r \in SpanRanges}

SeqsUpTo(S, n) == UNION {[1..k -> S] : k \in 0..n}

MergeInputs ==
    {io \in SeqsUpTo(NerUniverse, MaxSpans) \X SeqsUpTo(ExtUniverse, MaxSpans) :
        Len(io[1]) + Len(io[2]) <= MaxSpans}

NoResult == [op |-> "none"]
NoCall == [op |-> "none"]
NoHistory == [x \in {} |-> <<>>]

InitMerge ==
    /\ sessions = <<>>
    /\ pc = "start"
    /\ \E io \in MergeInputs :
        call = [op |-> "merge", ner_entities |-> io[1], extended_entities |-> io[2]]
    /\ result = NoResult
    /\ issued = NoHistory
    /\ created = NoHistory
    /\ ncalls = 0
    /\ models = <<>>
    /\ loads = <<>>

CombineEntities ==
    /\ pc = "start"
    /\ pc' = "done"
    /\ result' = [op |-> "_combine_entities",
                  entities |-> _combine_entities(call.ner_entities, call.extended_entities)]
    /\ UNCHANGED <<sessions, call, issued, created, ncalls, models, loads>>

RemoveOverlaps ==
    /\ pc = "start"
    /\ pc' = "done"
    /\ result' = [op |-> "_remove_overlaps",
                  entities |-> _remove_overlaps(call.extended_entities)]
    /\ UNCHANGED <<sessions, call, issued, created, ncalls, models, loads>>

MergeOverlappingEntities ==
    /\ pc = "start"
    /\ pc' = "done"
    /\ result' = [op |-> "merge_overlapping_entities",
                  entities |-> merge_overlapping_entities(call.ner_entities)]
    /\ UNCHANGED <<sessions, call, issued, created, ncalls, models, loads>>

NextMerge == CombineEntities \/ RemoveOverlaps \/ MergeOverlappingEntities

SpecMerge == InitMerge /\ [][NextMerge]_vars

(***************************************************************************)
(* Python dict: insertion-ordered, a sequence of [k, v] entries.           *)
(***************************************************************************)
DictKeys(d) == {d[i].k : i \in DOMAIN d}
DictHas(d, k) == k \in DictKeys(d)
DictGet(d, k) == d[CHOOSE i \in DOMAIN d : d[i].k = k].v
DictPut(d, k, v) ==
    IF DictHas(d, k)
    THEN [i \in DOMAIN d |-> IF d[i].k = k THEN [k |-> k, v |-> v] ELSE d[i]]
    ELSE Append(d, [k |-> k, v |-> v])
\* every entry removed, for comparison
DictDelAll(d, k) == <<>>
DictDel(d, k) == SelectSeq(d, LAMBDA e : e.k # k)
DictValues(d) == [i \in DOMAIN d |-> d[i].v]
\* dict.get(k, default)
DictGetOr(d, k, default) == IF DictHas(d, k) THEN DictGet(d, k) ELSE default

\* an unordered view (for dicts whose order nothing reads)
FnPut(f, k, v) == [x \in DOMAIN f \cup {k} |-> IF x = k THEN v ELSE f[x]]
EmptyFn == [x \in {} |-> <<>>]

(***************************************************************************)
(* entity_mapping.py: EntityMapper                                         *)
(***************************************************************************)
None == "<None>"            \* Python None, where a str is optional
Absent == <<"<absent>">>    \* a key missing from a JSON object

\* EntityMapper.__init__: `session_id or str(uuid.uuid4())`
EntityMapper(session_id, uuid) ==
    [session_id |-> IF session_id = None \/ session_id = "" THEN uuid ELSE session_id,
     mappings |-> <<>>,
     type_counters |-> <<>>,
     reverse_mappings |-> EmptyFn]

\* no normalization, for comparison
_normalize_entity_text_verbatim(text) == text

_normalize_entity_text(text) == Lower(Strip(text))

\* f"{normalized_text}:{entity_type}"
MappingKey(entity_text, entity_type) ==
    _normalize_entity_text(entity_text) \o <<":">> \o entity_type

\* type_mapping.get(entity_type, entity_type)
TypePrefix(entity_type) ==
    CASE entity_type = PER -> PERSON
      [] entity_type = LOC -> LOCATION
      [] entity_type = ORG -> ORGANIZATION
      [] OTHER -> entity_type

_generate_pseudonym(entity_type, counter) ==
    TypePrefix(entity_type) \o <<"_">> \o IntToStr(counter)

\* str(uuid.uuid4()): the first value of the stream that no row of the mapper
\* carries yet
uuid4(uuid, mapper) ==
    LET used == {mapper.mappings[i].v.created_at : i \in DOMAIN mapper.mappings}
        free == {i \in DOMAIN uuid : uuid[i] \notin used}
    IN uuid[CHOOSE i \in free : \A j \in free : i <= j]

\* returns the mapper after the call and the pseudonym
get_or_create_pseudonym(mapper, entity_text, entity_type, uuid) ==
    LET mapping_key == MappingKey(entity_text, entity_type) IN
    IF DictHas(mapper.mappings, mapping_key)
    THEN [mapper |-> mapper, pseudonym |-> DictGet(mapper.mappings, mapping_key).pseudonym]
    ELSE LET counter == DictGetOr(mapper.type_counters, entity_type, 0) + 1
             pseudonym == _generate_pseudonym(entity_type, counter)
             mapping == [original |-> entity_text, pseudonym |-> pseudonym,
                         entity_type |-> entity_type, session_id |-> mapper.session_id,
                         created_at |-> uuid4(uuid, mapper)]
         IN [mapper |->
                [mapper EXCEPT
                    !.type_counters = DictPut(@, entity_type, counter),
                    !.mappings = DictPut(@, mapping_key, mapping),
                    !.reverse_mappings = FnPut(@, pseudonym, entity_text)],
             pseudonym |-> pseudonym]

get_original_for_pseudonym(mapper, pseudonym) ==
    IF pseudonym \in DOMAIN mapper.reverse_mappings
    THEN mapper.reverse_mappings[pseudonym] ELSE Absent

Originals(mapper) == {mapper.mappings[i].v.original : i \in DOMAIN mapper.mappings}

\* original -> pseudonym; of the rows sharing an original the last one counts
get_all_mappings(mapper) ==
    [original \in Originals(mapper) |->
        LET rows == DictValues(mapper.mappings)
            last == CHOOSE i \in DOMAIN rows :
                        /\ rows[i].original = original
                        /\ \A j \in DOMAIN rows : rows[j].original = original => j <= i
        IN rows[last].pseudonym]

\* by_type of get_statistics: a count per entity_type, in row order
RECURSIVE CountByType(_, _)
CountByType(by_type, rows) ==
    IF rows = <<>> THEN by_type
    ELSE CountByType(
            DictPut(by_type, Head(rows).entity_type,
                    DictGetOr(by_type, Head(rows).entity_type, 0) + 1),
            Tail(rows))

get_statistics(mapper) ==
    [total_entities |-> Len(mapper.mappings),
     by_type |-> CountByType(<<>>, DictValues(mapper.mappings)),
     unique_entities |-> Cardinality(Originals(mapper)),
     session_id |-> mapper.session_id]

\* the JSON document written by export_mappings
export_mappings(mapper) ==
    [kind |-> "object",
     session_id |-> mapper.session_id,
     mappings |->
        [i \in DOMAIN mapper.mappings |->
            [original |-> mapper.mappings[i].v.original,
             pseudonym |-> mapper.mappings[i].v.pseudonym,
             entity_type |-> mapper.mappings[i].v.entity_type,
             created_at |-> mapper.mappings[i].v.created_at]],
     statistics |->
        [total_entities |-> Len(mapper.mappings),
         by_type |-> mapper.type_counters,
         unique_entities |-> Cardinality(Originals(mapper))]]

\* import_mappings, the loop over data["mappings"]: a row without original,
\* entity_type or pseudonym raises KeyError and leaves what was stored so far.
RECURSIVE ImportRows(_, _, _)
ImportRows(mapper, rows, uuid) ==
    IF rows = <<>> THEN [mapper |-> mapper, ok |-> TRUE]
    ELSE LET mapping_data == Head(rows) IN
         IF \/ mapping_data.original = Absent
            \/ mapping_data.entity_type = Absent
            \/ mapping_data.pseudonym = Absent
         THEN [mapper |-> mapper, ok |-> FALSE]
         ELSE LET mapping ==
                    [original |-> mapping_data.original,
                     pseudonym |-> mapping_data.pseudonym,
                     entity_type |-> mapping_data.entity_type,
                     session_id |-> mapper.session_id,
                     created_at |-> IF mapping_data.created_at = None
                                    THEN uuid4(uuid, mapper)
                                    ELSE mapping_data.created_at]
                  mapping_key == MappingKey(mapping_data.original, mapping_data.entity_type)
              IN ImportRows(
                    [mapper EXCEPT
                        !.mappings = DictPut(@, mapping_key, mapping),
                        !.reverse_mappings =
                            FnPut(@, mapping.pseudonym, mapping_data.original)],
                    Tail(rows), uuid)

\* import_mappings, "Rebuild type counters"
\* counters left as they are, for comparison
RebuildCountersSkipped(type_counters, rows) == type_counters

RECURSIVE RebuildCounters(_, _)
RebuildCounters(type_counters, rows) ==
    IF rows = <<>> THEN type_counters
    ELSE LET mapping == Head(rows)
             suffix == SplitLast(mapping.pseudonym)
         IN RebuildCounters(
                IF IsIntLiteral(suffix)
                THEN LET current_max == DictGetOr(type_counters, mapping.entity_type, 0)
                         counter == StrToInt(suffix)
                     IN DictPut(type_counters, mapping.entity_type,
                                IF current_max >= counter THEN current_max ELSE counter)
                ELSE DictPut(type_counters, mapping.entity_type,
                             DictGetOr(type_counters, mapping.entity_type, 0) + 1),
                Tail(rows))

\* returns the mapper after the call and the boolean returned.  A document is
\* "invalid" (json.loads raises), "not_object" (valid JSON, no dict: data.get
\* raises after the tables were cleared) or "object".
import_mappings(mapper, json_data, uuid) ==
    IF json_data.kind = "invalid" THEN [mapper |-> mapper, ok |-> FALSE]
    ELSE LET cleared == [mapper EXCEPT !.mappings = <<>>, !.reverse_mappings = EmptyFn,
                                       !.type_counters = <<>>]
         IN IF json_data.kind = "not_object" THEN [mapper |-> cleared, ok |-> FALSE]
            ELSE LET named == [cleared EXCEPT
                                !.session_id = IF json_data.session_id = None
                                               THEN uuid4(uuid, cleared)
                                               ELSE json_data.session_id]
                     loaded == ImportRows(named, json_data.mappings, uuid)
                 IN IF ~loaded.ok THEN loaded
                    ELSE [mapper |->
                            [loaded.mapper EXCEPT
                                !.type_counters =
                                    RebuildCounters(<<>>, DictValues(loaded.mapper.mappings))],
                          ok |-> TRUE]

clear_mappings(mapper) ==
    [mapper EXCEPT !.mappings = <<>>, !.reverse_mappings = EmptyFn, !.type_counters = <<>>]

(***************************************************************************)
(* entity_mapping.py: MappingSessionManager                                *)
(***************************************************************************)
\* returns the store after the call and the key of the mapper returned
get_or_create_session(store, session_id, uuid) ==
    LET id == IF session_id = None THEN uuid ELSE session_id IN
    [store |-> IF DictHas(store, id) THEN store
               ELSE DictPut(store, id, EntityMapper(id, uuid)),
     id |-> id]

get_session(store, session_id) == DictGetOr(store, session_id, None)

\* reports the deletion without deleting, for comparison
delete_session_kept(store, session_id) ==
    [store |-> store, ok |-> DictHas(store, session_id)]

delete_session(store, session_id) ==
    IF DictHas(store, session_id)
    THEN [store |-> DictDel(store, session_id), ok |-> TRUE]
    ELSE [store |-> store, ok |-> FALSE]

list_sessions(store) == [i \in DOMAIN store |-> store[i].k]

(***************************************************************************)
(* The texts requests are made with.                                       *)
(***************************************************************************)
TextAlBob == <<"A","l"," ","B","o","b">>
TextBOB == <<"B","O","B">>
TextJohn == <<"J","o","h","n"," ","l","i","v","e","s"," ","i","n"," ","B","e","r","l","i","n"," ","a","n","d"," ","w","o","r","k","s"," ","a","t"," ","G","o","o","g","l","e",".">>
\* "Al a@b.de 1.1.2000 +49301234567 A12345678"
TextAlMail == <<"A","l"," ","a","@","b",".","d","e"," ","1",".","1",".","2","0","0","0"," ","+","4","9","3","0","1","2","3","4","5","6","7"," ","A","1","2","3","4","5","6","7","8">>

Span(text, label, start, end, confidence) ==
    [text |-> SubSeq(text, start + 1, end), label |-> label, start |-> start, end |-> end,
     confidence |-> confidence]

(***************************************************************************)
(* pseudonymizer.py: TextPseudonymizer                                     *)
(***************************************************************************)
\* ner_pipeline.py, _mock_extract_entities: the matches of its fixed patterns
\* (two capitalized words; John, Mary, Max; four cities; four companies) in
\* the texts requests are made with, listed by label and pattern
_mock_extract_entities(text) ==
    CASE text = TextJohn -> <<Span(text, PER, 0, 4, 80), Span(text, LOC, 14, 20, 80),
                              Span(text, ORG, 34, 40, 80)>>
      [] text = TextAlBob -> <<Span(text, PER, 0, 6, 80)>>
      [] OTHER -> <<>>

\* ner_pipeline.py, extract_entities: `found` is what the recognizer reports;
\* `flair` tells whether the library was imported ("unavailable" if not) and
\* whether _load_model succeeds ("load_fails" if it raises); `throws` names
\* the detector that raises while it processes the text
extract_entities(text, language, found, flair, throws) ==
    IF IsBlank(text) THEN <<>>
    ELSE IF flair = "unavailable" THEN _mock_extract_entities(text)
    \* `except Exception: return []`
    ELSE IF flair = "load_fails" \/ throws = "ner" THEN <<>>
    ELSE found

filter_entities_by_confidence(entities, min_confidence) ==
    SelectSeq(entities, LAMBDA entity : entity.confidence >= min_confidence)

\* extended_patterns.py, extract_extended_entities: `matches` are the validated
\* matches of the email, phone, date and fixed-pattern extractors, concatenated
\* The extractor that reports a label.
ExtractorOf(label) ==
    CASE label = EMAIL -> "email" [] label = PHONE -> "phone" [] label = DATE -> "date"
      [] OTHER -> "pattern"

\* The extractor named by `throws` raises while validating one of its matches.
\* _extract_dates catches every exception and skips the match; the other
\* extractors catch at most the exception by which their validator rejects a
\* match, and extract_extended_entities catches nothing.
Propagates(matches, throws) ==
    /\ throws \in {"email", "phone", "pattern"}
    /\ \E i \in DOMAIN matches : ExtractorOf(matches[i].label) = throws

\* returns whether an exception leaves the function, and the entities if not
extract_extended_entities(text, language, matches, throws) ==
    IF Propagates(matches, throws)
    THEN [raised |-> TRUE, entities |-> <<>>]
    ELSE [raised |-> FALSE,
          entities |-> _remove_overlaps(
                SelectSeq(matches, LAMBDA e : ~(throws = "date" /\ e.label = DATE)))]

\* language_detection.py, detect_language: `guess` is what the detector reports
detect_language(text, guess) ==
    IF IsBlank(text) THEN [language |-> "en", confidence |-> 0] ELSE guess

\* the casing adjustment of _replace_entities_in_text
PreserveCase(entity_text, pseudonym) ==
    IF IsUpperStr(entity_text) THEN Upper(pseudonym)
    ELSE IF IsTitleStr(entity_text) THEN Title(pseudonym)
    ELSE IF IsLowerStr(entity_text) THEN Lower(pseudonym)
    ELSE pseudonym

\* result_text[:start_pos] + pseudonym + result_text[end_pos:]
Splice(text, start_pos, end_pos, pseudonym) ==
    SubSeq(text, 1, start_pos) \o pseudonym \o SubSeq(text, end_pos + 1, Len(text))

\* the loop of _replace_entities_in_text; st = [mapper, text, log], where log
\* records each get_or_create_pseudonym call and what it returned
RECURSIVE ReplaceLoop(_, _, _, _)
ReplaceLoop(st, sorted_entities, preserve_formatting, uuid) ==
    IF sorted_entities = <<>> THEN st
    ELSE LET entity == Head(sorted_entities)
             got == get_or_create_pseudonym(st.mapper, entity.text, entity.label, uuid)
             pseudonym == IF preserve_formatting
                          THEN PreserveCase(entity.text, got.pseudonym)
                          ELSE got.pseudonym
         IN ReplaceLoop(
                [mapper |-> got.mapper,
                 text |-> Splice(st.text, entity.start, entity.end, pseudonym),
                 log |-> Append(st.log,
                            [text |-> entity.text, label |-> entity.label,
                             pseudonym |-> got.pseudonym, written |-> pseudonym,
                             start |-> entity.start,
                             new |-> ~DictHas(st.mapper.mappings,
                                              MappingKey(entity.text, entity.label))])],
                Tail(sorted_entities), preserve_formatting, uuid)

_replace_entities_in_text(text, entities, entity_mapper, preserve_formatting, uuid) ==
    IF entities = <<>> THEN [mapper |-> entity_mapper, text |-> text, log |-> <<>>]
    ELSE ReplaceLoop([mapper |-> entity_mapper, text |-> text, log |-> <<>>],
                     SortByStartDesc(entities), preserve_formatting, uuid)

\* the loop over texts of pseudonymize_text; st = [mapper, results,
\* total_entities, log]
RECURSIVE TextsLoop(_, _, _, _)
TextsLoop(st, i, c, detected_language) ==
    IF i > Len(c.text.items) \/ st.raised THEN st
    ELSE LET text_content == c.text.items[i] IN
         IF IsBlank(text_content)
         THEN TextsLoop([st EXCEPT !.results = Append(@, <<>>)], i + 1, c, detected_language)
         ELSE LET ner_entities ==
                    filter_entities_by_confidence(
                        extract_entities(text_content, detected_language, c.env.ner[i],
                                         c.env.flair, c.env.throws),
                        c.min_confidence)
                  extended ==
                    extract_extended_entities(text_content, detected_language,
                                              c.env.ext[i], c.env.throws)
                  extended_entities == extended.entities
                  all_entities == _combine_entities(ner_entities, extended_entities)
                  replaced ==
                    _replace_entities_in_text(text_content, all_entities, st.mapper,
                                              c.preserve_formatting, c.env.created_at)
              IN IF extended.raised THEN [st EXCEPT !.raised = TRUE]
                 ELSE TextsLoop(
                    [mapper |-> replaced.mapper, raised |-> FALSE,
                     results |-> Append(st.results, replaced.text),
                     total_entities |-> st.total_entities + Len(all_entities),
                     log |-> st.log \o
                        [k \in DOMAIN replaced.log |->
                            [text |-> replaced.log[k].text, label |-> replaced.log[k].label,
                             pseudonym |-> replaced.log[k].pseudonym,
                             written |-> replaced.log[k].written,
                             start |-> replaced.log[k].start, new |-> replaced.log[k].new,
                             index |-> i]]],
                    i + 1, c, detected_language)

\* `next((t for t in texts if t.strip()), "")`
FirstNonBlank(texts) ==
    IF \E i \in DOMAIN texts : ~IsBlank(texts[i])
    THEN texts[CHOOSE i \in DOMAIN texts :
                    ~IsBlank(texts[i]) /\ \A j \in 1..(i - 1) : IsBlank(texts[j])]
    ELSE <<>>

\* no early return, for comparison
NothingToDoNever(texts) == FALSE

\* `not texts or all(not t.strip() for t in texts)`
NothingToDo(texts) == texts = <<>> \/ \A i \in DOMAIN texts : IsBlank(texts[i])

\* mcp_tools.py, pseudonymize_text: the dictionary returned when the call on
\* the TextPseudonymizer raises
ErrorResult(c) ==
    [op |-> "pseudonymize_text",
     pseudonymized |-> c.text,
     detected_language |-> "unknown",
     entity_count |-> 0,
     session_id |-> IF c.session_id = None THEN "" ELSE c.session_id,
     error |-> TRUE,
     invoked |-> (IF c.language = "auto" THEN {"detect_language"} ELSE {})
                 \cup {"extract_entities", "extract_extended_entities"}]

\* A text argument is [is_str, items]: a str (one item) or a list of str.
\* Returns the store after the call, the PseudonymizationResult, the key of the
\* session used and the log of the pseudonyms resolved.
pseudonymize_text(store, c) ==
    LET is_single_text == c.text.is_str
        texts == c.text.items
    IN
    IF NothingToDo(texts)
    THEN [sessions |-> store,
          result |->
            [op |-> "pseudonymize_text",
             pseudonymized |-> [is_str |-> is_single_text,
                                items |-> IF is_single_text THEN <<(<<>>)>> ELSE <<>>],
             detected_language |-> "en",
             entity_count |-> 0,
             session_id |-> IF c.session_id = None THEN "" ELSE c.session_id,
             confidence |-> 0,
             error |-> FALSE,
             invoked |-> {}],
          id |-> None,
          log |-> <<>>]
    ELSE LET got == get_or_create_session(store, c.session_id, c.env.session_uuid)
             detected ==
                IF c.language = "auto"
                THEN detect_language(FirstNonBlank(texts), c.env.detect)
                ELSE [language |-> c.language, confidence |-> 100]
             done == TextsLoop([mapper |-> DictGet(got.store, got.id), raised |-> FALSE,
                                results |-> <<>>, total_entities |-> 0, log |-> <<>>],
                               1, c, detected.language)
         IN [sessions |-> DictPut(got.store, got.id, done.mapper),
             result |->
                IF done.raised THEN ErrorResult(c) ELSE
                [op |-> "pseudonymize_text",
                 pseudonymized |-> [is_str |-> is_single_text,
                                    items |-> IF is_single_text
                                              THEN <<done.results[1]>> ELSE done.results],
                 detected_language |-> detected.language,
                 entity_count |-> done.total_entities,
                 session_id |-> done.mapper.session_id,
                 confidence |-> detected.confidence,
                 error |-> FALSE,
                 invoked |->
                    (IF c.language = "auto" THEN {"detect_language"} ELSE {})
                    \cup {"extract_entities", "extract_extended_entities"}],
             id |-> got.id,
             log |-> done.log]

clear_session(store, session_id) == delete_session(store, session_id)

\* returns the document, or None when the session is not in the store
export_session_mappings(store, session_id) ==
    IF DictHas(store, session_id)
    THEN export_mappings(DictGet(store, session_id))
    ELSE [kind |-> "None"]

\* returns the store after the call, the key of the session used and the
\* boolean returned
import_session_mappings(store, json_data, session_id, session_uuid, uuid) ==
    LET got == get_or_create_session(store, session_id, session_uuid)
        done == import_mappings(DictGet(got.store, got.id), json_data, uuid)
    IN [sessions |-> DictPut(got.store, got.id, done.mapper), id |-> got.id, ok |-> done.ok]

\* `if session_id:` -- None and the empty string count as no session id
Truthy(session_id) == session_id # None /\ session_id # ""

\* returns the store after the call, the key of the session read (None when
\* there is none) and the dictionary returned
get_entity_mappings(store, session_id, uuid) ==
    \* get_session returns None exactly when the id is not a key of the store
    IF Truthy(session_id) /\ ~DictHas(store, session_id)
    THEN [sessions |-> store, id |-> None,
          response |-> [kind |-> "error", session_id |-> session_id]]
    ELSE LET got ==
                IF Truthy(session_id) THEN [store |-> store, id |-> session_id]
                ELSE IF list_sessions(store) # <<>>
                THEN [store |-> store,
                      id |-> list_sessions(store)[Len(list_sessions(store))]]
                ELSE get_or_create_session(store, None, uuid)
             entity_mapper == DictGet(got.store, got.id)
         IN [sessions |-> got.store, id |-> got.id,
             response |-> [kind |-> "mappings",
                           mappings |-> get_all_mappings(entity_mapper),
                           statistics |-> get_statistics(entity_mapper)]]

(***************************************************************************)
(* History of the pseudonyms a session handed out (not program state).     *)
(***************************************************************************)
LogKey(entry) == MappingKey(entry.text, entry.label)

\* what callers regard as one entity: the trimmed, lower-cased text and the type
Identity(text, label) == [text |-> Lower(Strip(text)), label |-> label]

NewEntries(log) == SelectSeq(log, LAMBDA e : e.new)

HistGet(h, k, empty) == IF k \in DOMAIN h THEN h[k] ELSE empty

\* the histories after a call that resolved `log` on the session stored under id
IssuedAfter(store, id, log) ==
    [k \in DictKeys(store) |->
        HistGet(issued, k, {}) \cup
        (IF k = id
         THEN {[entity |-> Identity(log[i].text, log[i].label),
                pseudonym |-> log[i].pseudonym] : i \in DOMAIN log}
         ELSE {})]
CreatedAfter(store, id, log) ==
    [k \in DictKeys(store) |->
        HistGet(created, k, <<>>) \o
        (IF k = id
         THEN [i \in DOMAIN NewEntries(log) |->
                [key |-> LogKey(NewEntries(log)[i]), label |-> NewEntries(log)[i].label,
                 pseudonym |-> NewEntries(log)[i].pseudonym]]
         ELSE <<>>)]
\* the histories after a call that replaced or deleted the tables of session id
HistReset(h, store, id, empty) ==
    [k \in DictKeys(store) |-> IF k = id THEN empty ELSE HistGet(h, k, empty)]

(***************************************************************************)
(* The service: requests against one TextPseudonymizer (mcp_tools.py).     *)
(***************************************************************************)
RECURSIVE RowCount(_)
RowCount(store) ==
    IF store = <<>> THEN 0 ELSE Len(Head(store).v.mappings) + RowCount(Tail(store))

\* the store holds at most n rows in all
RowsWithin(store, n) == RowCount(store) <= n

\* uuid4 values: never one that is already a session key
KeyUUIDs == {"uuid-1"}
\* the values uuid4 returns for created_at, in the order it returns them
UUIDStream == <<"c-1", "c-2", "c-3", "c-4", "c-5", "c-6", "c-7", "c-8">>

PseudonymizeText(Calls) ==
    /\ pc = "idle"
    /\ \E c \in Calls : \E out \in {pseudonymize_text(sessions, c)} :
        /\ (out.id # None /\ c.session_id = None) => ~DictHas(sessions, out.id)
        /\ sessions' = out.sessions
        /\ call' = c
        /\ result' = [out.result EXCEPT !.op = "pseudonymize_text"] @@
                     [id |-> out.id, log |-> out.log]
        /\ issued' = IssuedAfter(out.sessions, out.id, out.log)
        /\ created' = CreatedAfter(out.sessions, out.id, out.log)
    /\ pc' = "returned"

\* a direct call of EntityMapper.get_or_create_pseudonym on a stored session
GetOrCreatePseudonym(Texts, Types) ==
    /\ pc = "idle"
    /\ \E id \in DictKeys(sessions), entity_text \in Texts, entity_type \in Types :
        \E got \in {get_or_create_pseudonym(DictGet(sessions, id), entity_text,
                                            entity_type, UUIDStream)} :
        \E log \in {<<[text |-> entity_text, label |-> entity_type,
                       pseudonym |-> got.pseudonym, written |-> got.pseudonym, start |-> 0,
                       new |-> ~DictHas(DictGet(sessions, id).mappings,
                                        MappingKey(entity_text, entity_type)),
                       index |-> 1]>>} :
        \E store \in {DictPut(sessions, id, got.mapper)} :
        /\ RowsWithin(store, MaxMappings)
        /\ sessions' = store
        /\ call' = [op |-> "get_or_create_pseudonym", session_id |-> id,
                    entity_text |-> entity_text, entity_type |-> entity_type]
        /\ result' = [op |-> "get_or_create_pseudonym", pseudonym |-> got.pseudonym,
                      id |-> id, log |-> log]
        /\ issued' = IssuedAfter(store, id, log)
        /\ created' = CreatedAfter(store, id, log)
    /\ pc' = "returned"
    /\ UNCHANGED <<ncalls, models, loads>>

ExportMappings(Ids) ==
    /\ pc = "idle"
    /\ \E session_id \in Ids :
        /\ call' = [op |-> "export_mappings", session_id |-> session_id]
        /\ result' = [op |-> "export_mappings",
                      mappings_json |-> export_session_mappings(sessions, session_id)]
    /\ pc' = "returned"
    /\ UNCHANGED <<sessions, issued, created, ncalls, models, loads>>

ImportMappings(Docs, Ids) ==
    /\ pc = "idle"
    /\ \E json_data \in Docs, session_id \in Ids, session_uuid \in KeyUUIDs :
        \E out \in {import_session_mappings(sessions, json_data, session_id,
                                            session_uuid, UUIDStream)} :
        /\ session_id = None => ~DictHas(sessions, session_uuid)
        /\ RowsWithin(out.sessions, MaxMappings)
        /\ sessions' = out.sessions
        /\ call' = [op |-> "import_mappings", mappings_json |-> json_data,
                    session_id |-> session_id,
                    env |-> [session_uuid |-> session_uuid]]
        /\ result' = [op |-> "import_mappings", success |-> out.ok, id |-> out.id]
        /\ issued' = HistReset(issued, out.sessions, out.id, {})
        /\ created' = HistReset(created, out.sessions, out.id, <<>>)
    /\ pc' = "returned"
    /\ UNCHANGED <<ncalls, models, loads>>

ClearSession(Ids) ==
    /\ pc = "idle"
    /\ \E session_id \in Ids :
        \E out \in {clear_session(sessions, session_id)} :
        /\ sessions' = out.store
        /\ call' = [op |-> "clear_session", session_id |-> session_id]
        /\ result' = [op |-> "clear_session", success |-> out.ok]
        /\ issued' = HistReset(issued, out.store, session_id, {})
        /\ created' = HistReset(created, out.store, session_id, <<>>)
    /\ pc' = "returned"
    /\ UNCHANGED <<ncalls, models, loads>>

GetEntityMappings(Ids) ==
    /\ pc = "idle"
    /\ \E session_id \in Ids, session_uuid \in KeyUUIDs :
        \E out \in {get_entity_mappings(sessions, session_id, session_uuid)} :
        /\ sessions' = out.sessions
        /\ call' = [op |-> "get_entity_mappings", session_id |-> session_id,
                    env |-> [session_uuid |-> session_uuid]]
        /\ result' = [op |-> "get_entity_mappings", response |-> out.response,
                      id |-> out.id]
        /\ issued' = IssuedAfter(out.sessions, out.id, <<>>)
        /\ created' = CreatedAfter(out.sessions, out.id, <<>>)
    /\ pc' = "returned"
    /\ UNCHANGED <<ncalls, models, loads>>

\* the response is handed to the caller; the service waits for the next request
Respond ==
    /\ pc = "returned"
    /\ pc' = "idle"
    /\ call' = NoCall
    /\ result' = NoResult
    /\ UNCHANGED <<sessions, issued, created, ncalls, models, loads>>

(***************************************************************************)
(* Inputs of the session specification Spec.                               *)
(***************************************************************************)
\* what a recognizer that finds every name reports
Recognized(text) ==
    CASE text = TextAlBob -> <<Span(text, PER, 0, 2, 80), Span(text, PER, 3, 6, 80)>>
      [] text = TextBOB -> <<Span(text, PER, 0, 3, 80)>>
      [] OTHER -> <<>>

StrArg(text) == [is_str |-> TRUE, items |-> <<text>>]
ListArg(texts) == [is_str |-> FALSE, items |-> texts]

SessionIdArgs == {None, "sess-A"}

\* session ids passed to get_entity_mappings: omitted, empty, named
MappingsIdArgs == {None, "", "sess-A"}

SessionTextArgs ==
    {StrArg(<<>>), StrArg(TextAlBob), StrArg(TextBOB), ListArg(<<TextBOB, TextAlBob>>)}

SessionCalls ==
    {[op |-> "pseudonymize_text", text |-> t, language |-> "en",
      preserve_formatting |-> TRUE, session_id |-> sid, min_confidence |-> 50,
      env |-> [detect |-> [language |-> "en", confidence |-> 90],
               ner |-> [i \in DOMAIN t.items |-> Recognized(t.items[i])],
               ext |-> [i \in DOMAIN t.items |-> <<>>],
               flair |-> "available", throws |-> None,
               session_uuid |-> su, created_at |-> UUIDStream]] :
        t \in SessionTextArgs, sid \in SessionIdArgs, su \in KeyUUIDs}

EntityTexts == {<<"A","l">>, <<" ","a","l">>}
\* a recognizer type, and a type that passes through as its own prefix
EntityTypes == {PER, PERSON}

DocRow(original, pseudonym, entity_type, created_at) ==
    [original |-> original, pseudonym |-> pseudonym, entity_type |-> entity_type,
     created_at |-> created_at]
Doc(session_id, rows) ==
    [kind |-> "object", session_id |-> session_id, mappings |-> rows,
     statistics |-> [total_entities |-> Len(rows), by_type |-> <<>>,
                     unique_entities |-> Len(rows)]]

\* documents a caller supplies: unparsable, not an object, one row kept of an
\* export of two, two rows sharing one normalized key, a row without pseudonym
HandWrittenDocs ==
    {[kind |-> "invalid"],
     [kind |-> "not_object"],
     Doc("sess-A", <<DocRow(<<"B","o","b">>, <<"P","E","R","S","O","N","_","2">>, PER, "c-2")>>),
     Doc("sess-A", <<DocRow(<<"B","o","b">>, <<"P","E","R","S","O","N","_","2">>, PER, "c-1"),
                     DocRow(<<"b","o","b">>, <<"P","E","R","S","O","N","_","1">>, PER, "c-2")>>),
     Doc("sess-A", <<DocRow(<<"A","l">>, <<"P","E","R","S","O","N","_","1">>, PER, "c-1"),
                     DocRow(<<"B","o","b">>, Absent, PER, "c-2")>>)}

\* and the documents exported from the sessions in the store
ExportedDocs == {export_mappings(sessions[i].v) : i \in DOMAIN sessions}

Init ==
    /\ sessions = <<>>
    /\ pc = "idle"
    /\ call = NoCall
    /\ result = NoResult
    /\ issued = NoHistory
    /\ created = NoHistory
    /\ ncalls = 0
    /\ models = <<>>
    /\ loads = <<>>

Next ==
    \/ PseudonymizeText(SessionCalls) /\ RowsWithin(sessions', MaxMappings)
                                      /\ UNCHANGED <<ncalls, models, loads>>
    \/ GetOrCreatePseudonym(EntityTexts, EntityTypes)
    \/ ExportMappings(SessionIdArgs \ {None})
    \/ ImportMappings(HandWrittenDocs, SessionIdArgs \ {None})
    \/ ImportMappings(ExportedDocs, {None})
    \/ ClearSession(SessionIdArgs \ {None})
    \/ GetEntityMappings(MappingsIdArgs)
    \/ Respond

Spec == Init /\ [][Next]_vars

(***************************************************************************)
(* Inputs of the text specification SpecText: single requests against a    *)
(* new TextPseudonymizer.                                                  *)
(***************************************************************************)

\* what a recognizer that finds John, Berlin and Google reports, with the
\* confidence it gives the person and the one it gives the other two
RecognizedJohn(text, person, other) ==
    IF text = TextJohn
    THEN <<Span(text, PER, 0, 4, person), Span(text, LOC, 14, 20, other),
           Span(text, ORG, 34, 40, other)>>
    ELSE [i \in DOMAIN Recognized(text) |->
            [Recognized(text)[i] EXCEPT !.confidence = IF i = 1 THEN person ELSE other]]

TextArgs ==
    {StrArg(TextJohn), StrArg(TextAlBob), StrArg(<<>>), StrArg(<<" ">>),
     ListArg(<<>>), ListArg(<<(<<>>), <<" ">>>>),
     ListArg(<<TextAlBob, <<>>, TextBOB>>), ListArg(<<(<<>>), TextJohn>>)}

\* min_confidence, in hundredths
MinConfidences == {-50, 0, 50, 100, 150}
\* the confidences a recognizer reports, in hundredths
Confidences == {80, 100}

\* SUPPORTED_LANGUAGES of the language detector
SUPPORTED_LANGUAGES == {"de", "en"}
\* language arguments: automatic, a supported code, a code that is not supported
LanguageArgs == {"auto", "en", "fr"}

TextCalls ==
    {[op |-> "pseudonymize_text", text |-> t, language |-> lang,
      preserve_formatting |-> pf, session_id |-> sid, min_confidence |-> mc,
      env |-> [detect |-> [language |-> "en", confidence |-> 90],
               ner |-> [i \in DOMAIN t.items |-> RecognizedJohn(t.items[i], person, other)],
               ext |-> [i \in DOMAIN t.items |-> <<>>],
               flair |-> "available", throws |-> None,
               session_uuid |-> su, created_at |-> UUIDStream]] :
        t \in TextArgs, lang \in LanguageArgs, pf \in BOOLEAN,
        sid \in SessionIdArgs, mc \in MinConfidences, person \in Confidences,
        other \in Confidences, su \in KeyUUIDs}

\* what the recognizer and the extractors report for a text when none fails
RecognizedFault(text) ==
    IF text = TextAlMail THEN <<Span(text, PER, 0, 2, 80)>>
    ELSE RecognizedJohn(text, 80, 80)
Matched(text) ==
    IF text = TextAlMail
    THEN <<Span(text, EMAIL, 3, 9, 95), Span(text, PHONE, 19, 31, 90),
           Span(text, DATE, 10, 18, 85), Span(text, LICENSE, 32, 41, 80)>>
    ELSE <<>>

\* the detectors that may raise: the recognizer and the four extractors
Detectors == {"ner", "email", "phone", "date", "pattern"}
\* the recognizer: model loaded, library missing, model loading fails
FlairStates == {"available", "unavailable", "load_fails"}

FaultTextArgs ==
    {StrArg(TextAlMail), StrArg(TextJohn), ListArg(<<TextAlBob, TextAlMail>>)}

\* requests during which the recognizer is degraded or one detector raises
FaultCalls ==
    {[op |-> "pseudonymize_text", text |-> t, language |-> "en",
      preserve_formatting |-> TRUE, session_id |-> sid, min_confidence |-> 50,
      env |-> [detect |-> [language |-> "en", confidence |-> 90],
               ner |-> [i \in DOMAIN t.items |-> RecognizedFault(t.items[i])],
               ext |-> [i \in DOMAIN t.items |-> Matched(t.items[i])],
               flair |-> f.flair, throws |-> f.throws,
               session_uuid |-> su, created_at |-> UUIDStream]] :
        t \in FaultTextArgs, sid \in SessionIdArgs, su \in KeyUUIDs,
        f \in {[flair |-> "available", throws |-> d] : d \in Detectors \cup {None}}
              \cup {[flair |-> fl, throws |-> None] : fl \in FlairStates}}

NextText ==
    \/ /\ ncalls < MaxCalls
       /\ PseudonymizeText(TextCalls \cup FaultCalls)
       /\ ncalls' = ncalls + 1
       /\ UNCHANGED <<models, loads>>
    \/ Respond

SpecText == Init /\ [][NextText]_vars

(***************************************************************************)
(* Properties of overlap resolution (specification SpecMerge).             *)
(***************************************************************************)
Reorderings(s) ==
    {[i \in DOMAIN s |-> s[p[i]]] :
        p \in {q \in [DOMAIN s -> DOMAIN s] : \A i, j \in DOMAIN s : q[i] = q[j] => i = j}}

\* C3: the list returned by _combine_entities is pairwise non-overlapping and
\* ordered by ascending start offset, for every pair of input lists.
C3_CombineNonOverlappingOrdered ==
    (pc = "done" /\ result.op = "_combine_entities") =>
        LET out == result.entities IN
        /\ \A i, j \in DOMAIN out :
            i # j => (out[i].end <= out[j].start \/ out[j].end <= out[i].start)
        /\ \A i, j \in DOMAIN out : i < j => out[i].start < out[j].start

\* a merge of three spans from both detectors, given out of start order, with
\* an overlap resolved and two spans kept
C3_Witness ==
    /\ pc = "done" /\ result.op = "_combine_entities"
    /\ Len(call.ner_entities) >= 1 /\ Len(call.extended_entities) >= 1
    /\ Len(call.ner_entities) + Len(call.extended_entities) = 3
    /\ call.ner_entities[1].start > call.extended_entities[1].start
    /\ \E i \in DOMAIN call.ner_entities : \E j \in DOMAIN call.extended_entities :
        EntitiesOverlap(call.ner_entities[i], call.extended_entities[j])
    /\ Len(result.entities) = 2

\* C4 (as claimed): every permutation of the detector output fed to the merge
\* gives the same final span set, for _combine_entities, _remove_overlaps and
\* merge_overlapping_entities alike.
C4_MergeOrderIndependent ==
    /\ (pc = "done" /\ result.op = "_combine_entities") =>
        \A p \in Reorderings(call.ner_entities \o call.extended_entities) :
            Range(Simplify(ResolveOverlaps(p))) = Range(result.entities)
    /\ (pc = "done" /\ result.op = "_remove_overlaps") =>
        \A p \in Reorderings(call.extended_entities) :
            Range(_remove_overlaps(p)) = Range(result.entities)
    /\ (pc = "done" /\ result.op = "merge_overlapping_entities") =>
        \A p \in Reorderings(call.ner_entities) :
            Range(merge_overlapping_entities(p)) = Range(result.entities)

(***************************************************************************)
(* Properties of the session store (specification Spec).                   *)
(***************************************************************************)
\* a step in which a request resolved entities on a session, and the state
\* in which its response is pending
Resolves ==
    /\ pc = "idle" /\ pc' = "returned"
    /\ call'.op \in {"pseudonymize_text", "get_or_create_pseudonym"}
    /\ result'.id # None
Resolved ==
    /\ pc = "returned"
    /\ call.op \in {"pseudonymize_text", "get_or_create_pseudonym"}
    /\ result.id # None

EntryIdentity(e) == Identity(e.text, e.label)

Suffix(pseudonym) == StrToInt(SplitLast(pseudonym))

C1_OnePseudonymPerEntity ==
    \A k \in DOMAIN issued : \A a, b \in issued[k] :
        a.entity = b.entity => a.pseudonym = b.pseudonym

C1_KnownEntitiesChangeNothing ==
    (/\ Resolves
     /\ result'.id \in DOMAIN issued
     /\ \A i \in DOMAIN result'.log :
            \E a \in issued[result'.id] : a.entity = EntryIdentity(result'.log[i]))
    => DictGet(sessions', result'.id) = DictGet(sessions, result'.id)

\* C1: whenever two calls on one session resolve the same original text (up to
\* trimming and letter case) and type, with no clear or import in between, both
\* get the same pseudonym; and a call that resolves only entities the session
\* resolved before changes neither its mapping tables nor its counters.
C1_SamePseudonymAcrossCalls ==
    []C1_OnePseudonymPerEntity /\ [][C1_KnownEntitiesChangeNothing]_vars

\* a direct call resolved a known entity written differently from the stored
\* original, on a session that holds two rows
C1_Witness ==
    /\ Resolved /\ call.op = "get_or_create_pseudonym"
    /\ ~result.log[1].new
    /\ DictGet(DictGet(sessions, result.id).mappings,
               MappingKey(call.entity_text, call.entity_type)).original # call.entity_text
    /\ Len(DictGet(sessions, result.id).mappings) = 2

\* the places (text index, start offset) where an entity occurs in one call
Occurrences(log, entity) ==
    {<<log[i].index, log[i].start>> :
        i \in {j \in DOMAIN log : EntryIdentity(log[j]) = entity}}

\* a occurs before every occurrence of b: in an earlier text, or in the same
\* text at a smaller start offset
AppearsFirst(log, a, b) ==
    \E p \in Occurrences(log, a) : \A o \in Occurrences(log, b) :
        p[1] < o[1] \/ (p[1] = o[1] /\ p[2] < o[2])

\* a is resolved before every occurrence of b: in an earlier text, or in the
\* same text at a larger start offset
ResolvedFirst(log, a, b) ==
    \E p \in Occurrences(log, a) : \A o \in Occurrences(log, b) :
        p[1] < o[1] \/ (p[1] = o[1] /\ p[2] > o[2])

\* the entities a call created get suffixes above those the session created in
\* earlier calls, and among themselves suffixes in the order First
SuffixesFollow(log, id, First(_, _, _)) ==
    LET new == NewEntries(log)
        earlier == HistGet(created, id, <<>>)
    IN /\ \A i \in DOMAIN new : \A j \in DOMAIN earlier :
            earlier[j].label = new[i].label
                => Suffix(earlier[j].pseudonym) < Suffix(new[i].pseudonym)
       /\ \A i, j \in DOMAIN new :
            (/\ i # j
             /\ new[i].label = new[j].label
             /\ First(log, EntryIdentity(new[i]), EntryIdentity(new[j])))
                => Suffix(new[i].pseudonym) < Suffix(new[j].pseudonym)

\* C2 (as claimed): distinct entities of one type get strictly increasing
\* suffixes in the order of their first appearance: earlier call, earlier text
\* of a batch, or smaller start offset within one text.
C2_SuffixesInAppearanceOrder ==
    [][Resolves => SuffixesFollow(result'.log, result'.id, AppearsFirst)]_vars

\* C2 (amended): with no clear or import in between, distinct entities of one
\* type get strictly increasing suffixes in the order of their first
\* resolution: earlier call, earlier text of a batch, or LARGER start offset
\* within one text.
C2_SuffixesInResolutionOrder ==
    [][Resolves => SuffixesFollow(result'.log, result'.id, ResolvedFirst)]_vars

\* one text introduced two entities of one type to a session
C2_Witness ==
    /\ Resolved /\ call.op = "pseudonymize_text"
    /\ \E i, j \in DOMAIN result.log :
        /\ result.log[i].new /\ result.log[j].new
        /\ result.log[i].label = result.log[j].label
        /\ result.log[i].index = result.log[j].index
        /\ result.log[i].start < result.log[j].start
        /\ Suffix(result.log[i].pseudonym) > Suffix(result.log[j].pseudonym)

\* every row of the session was created by get_or_create_pseudonym
Native(id) ==
    /\ id \in DOMAIN created
    /\ \A k \in DictKeys(DictGet(sessions, id).mappings) :
        \E j \in DOMAIN created[id] : created[id][j].key = k

SameTables(a, b) ==
    /\ a.mappings = b.mappings
    /\ a.reverse_mappings = b.reverse_mappings
    /\ a.type_counters = b.type_counters
    /\ get_statistics(a) = get_statistics(b)
    /\ export_mappings(a) = export_mappings(b)

\* C5: for a session whose rows were all created by get_or_create_pseudonym,
\* importing its exported document into a new session reproduces the mapping
\* table (same keys, same rows), the reverse mapping, the counters and the
\* statistics, and exporting again gives the same document.
C5_ExportImportRoundTrip ==
    \A i \in DOMAIN sessions :
        Native(sessions[i].k) =>
            LET loaded == import_mappings(EntityMapper(None, "uuid-0"),
                                          export_mappings(sessions[i].v), UUIDStream)
            IN loaded.ok /\ SameTables(loaded.mapper, sessions[i].v)

\* the exported document of a session with a row was imported into a session
\* that did not exist, which now holds the same tables
C5_Witness ==
    /\ pc = "returned" /\ call.op = "import_mappings" /\ call.session_id = None
    /\ result.success
    /\ \E i \in DOMAIN sessions :
        /\ sessions[i].k # result.id
        /\ Native(sessions[i].k)
        /\ Len(sessions[i].v.mappings) >= 1
        /\ call.mappings_json = export_mappings(sessions[i].v)
        /\ SameTables(DictGet(sessions, result.id), sessions[i].v)

\* the pseudonyms a session took from a document: those it holds and did not
\* create itself
ImportedPseudonyms(id) ==
    DOMAIN DictGet(sessions, id).reverse_mappings \
        {created[id][j].pseudonym : j \in DOMAIN created[id]}

\* C6 (as claimed): after an import, a pseudonym newly created for type t has
\* a suffix above every imported suffix of type t and differs from every
\* imported pseudonym, those held only in the reverse mapping included.
C6_NoCollisionAfterImport ==
    [][(Resolves /\ result'.id \in DOMAIN created) =>
        \A i \in DOMAIN result'.log :
            result'.log[i].new =>
                /\ result'.log[i].pseudonym \notin ImportedPseudonyms(result'.id)
                /\ \A k \in DOMAIN DictGet(sessions, result'.id).mappings :
                    LET row == DictGet(sessions, result'.id).mappings[k].v IN
                    (/\ row.pseudonym \in ImportedPseudonyms(result'.id)
                     /\ row.entity_type = result'.log[i].label
                     /\ IsIntLiteral(SplitLast(row.pseudonym)))
                        => Suffix(row.pseudonym) < Suffix(result'.log[i].pseudonym)]_vars

\* C9: pseudonymize_text on the empty string returns "", entity_count 0 and
\* detected_language "en", invokes neither the language detector nor the
\* recognizer nor the pattern detectors, and leaves the session store as it is.
C9_EmptyStringDoesNothing ==
    [][(/\ pc = "idle" /\ pc' = "returned"
        /\ call'.op = "pseudonymize_text"
        /\ call'.text = StrArg(<<>>))
       => /\ result'.pseudonymized = StrArg(<<>>)
          /\ result'.entity_count = 0
          /\ result'.detected_language = "en"
          /\ result'.invoked = {}
          /\ sessions' = sessions]_vars

\* the empty string was submitted for a session the store does not hold, while
\* it holds another one
C9_Witness ==
    /\ pc = "returned" /\ call.op = "pseudonymize_text"
    /\ call.text = StrArg(<<>>)
    /\ call.session_id = "sess-A"
    /\ sessions # <<>>
    /\ ~DictHas(sessions, "sess-A")

(***************************************************************************)
(* Properties of single requests (specification SpecText).                 *)
(***************************************************************************)
Returned == pc = "returned" /\ call.op = "pseudonymize_text"

\* C7 (as claimed): with default arguments and a new session, the text
\* "John lives in Berlin and works at Google.", in which the recognizer finds
\* the three names, comes back with exactly the placeholders PERSON_1,
\* LOCATION_1 and ORGANIZATION_1, and entity_count 3.
C7_DefaultCallWritesPlaceholders ==
    (/\ Returned
     /\ call.text = StrArg(TextJohn)
     /\ call.language = "auto" /\ call.preserve_formatting
     /\ call.session_id = None /\ call.min_confidence = 50)
    => /\ result.pseudonymized =
            StrArg(<<"P","E","R","S","O","N","_","1"," ","l","i","v","e","s"," ","i","n"," ","L","O","C","A","T","I","O","N","_","1"," ","a","n","d"," ","w","o","r","k","s"," ","a","t"," ","O","R","G","A","N","I","Z","A","T","I","O","N","_","1",".">>)
       /\ result.entity_count = 3

\* C8 (as claimed): a str comes back as a str, a list of n strings as a list
\* of exactly n strings, an empty or blank element as the empty string.
C8_ShapePreserved ==
    Returned =>
        /\ result.pseudonymized.is_str = call.text.is_str
        /\ Len(result.pseudonymized.items) = Len(call.text.items)
        /\ \A i \in DOMAIN call.text.items :
            (~call.text.is_str /\ IsBlank(call.text.items[i]))
                => result.pseudonymized.items[i] = <<>>

Clamp(min_confidence) ==
    IF min_confidence < 0 THEN 0 ELSE IF min_confidence > 100 THEN 100 ELSE min_confidence

\* C10 (as claimed): a min_confidence outside [0.0, 1.0] gives the result, and
\* the store, that the same call gives with min_confidence clamped into
\* [0.0, 1.0].
C10_OutOfRangeActsClamped ==
    [][(/\ pc = "idle" /\ pc' = "returned"
        /\ call'.op = "pseudonymize_text"
        /\ call'.min_confidence \notin 0..100)
       => LET clamped == pseudonymize_text(sessions,
                            [call' EXCEPT !.min_confidence = Clamp(@)])
          IN /\ result'.pseudonymized = clamped.result.pseudonymized
             /\ result'.entity_count = clamped.result.entity_count
             /\ result'.detected_language = clamped.result.detected_language
             /\ result'.session_id = clamped.result.session_id
             /\ sessions' = clamped.sessions]_vars

\* C11 (as claimed): whatever language value the caller passes, the
\* detected_language of the result is a supported language code.
C11_DetectedLanguageSupported ==
    Returned => result.detected_language \in SUPPORTED_LANGUAGES

(***************************************************************************)
(* Properties of the session store, continued (specification Spec).        *)
(***************************************************************************)
\* C12 (as claimed): get_entity_mappings with an explicit session id that is
\* not in the store returns the error result and leaves the store as it was.
C12_UnknownSessionIsAnError ==
    [][(/\ pc = "idle" /\ pc' = "returned"
        /\ call'.op = "get_entity_mappings"
        /\ call'.session_id # None
        /\ ~DictHas(sessions, call'.session_id))
       => /\ result'.response.kind = "error"
          /\ sessions' = sessions]_vars

\* every row of mapper a is a row of mapper b: same key, pseudonym and original
RowsKept(a, b) ==
    \A key \in DictKeys(a.mappings) :
        /\ DictHas(b.mappings, key)
        /\ DictGet(b.mappings, key).pseudonym = DictGet(a.mappings, key).pseudonym
        /\ DictGet(b.mappings, key).original = DictGet(a.mappings, key).original

\* C13 (as claimed): pseudonymize_text, get_or_create_pseudonym and
\* import_mappings only ever add rows to a session: every row the session held
\* before the operation is still there afterwards, with the same pseudonym
\* and the same original.
C13_MappingsAppendOnly ==
    [][(/\ pc = "idle" /\ pc' = "returned"
        /\ call'.op \in {"pseudonymize_text", "get_or_create_pseudonym",
                         "import_mappings"})
       => \A id \in DictKeys(sessions) :
            /\ DictHas(sessions', id)
            /\ RowsKept(DictGet(sessions, id), DictGet(sessions', id))]_vars

\* C17: clear_session(id) returns true exactly when id was in the store before
\* the call; afterwards id is not listed and not found, every other session is
\* as it was, and clearing id again returns false; when id was not in the
\* store nothing changes.
C17_ClearSessionReportsDeletion ==
    [][(/\ pc = "idle" /\ pc' = "returned"
        /\ call'.op = "clear_session")
       => LET id == call'.session_id IN
          /\ result'.success = DictHas(sessions, id)
          /\ id \notin Range(list_sessions(sessions'))
          /\ ~DictHas(sessions', id)
          /\ ~clear_session(sessions', id).ok
          /\ sessions' = SelectSeq(sessions, LAMBDA e : e.k # id)
          /\ ~DictHas(sessions, id) => sessions' = sessions]_vars

\* a session holding rows has just been cleared while another session stays
C17_Witness ==
    /\ pc = "returned"
    /\ call.op = "clear_session"
    /\ result.success
    /\ ~DictHas(sessions, call.session_id)
    /\ sessions # <<>>

\* C18 (as claimed): in every session no two mapping keys share a pseudonym,
\* also when types with the same prefix occur together, and
\* get_original_for_pseudonym returns, for the pseudonym of each row, the
\* original of that row.
C18_PseudonymsSessionUnique ==
    \A id \in DictKeys(sessions) :
        LET mapper == DictGet(sessions, id)
            rows == mapper.mappings
        IN /\ \A i, j \in DOMAIN rows :
                rows[i].v.pseudonym = rows[j].v.pseudonym => i = j
           /\ \A i \in DOMAIN rows :
                get_original_for_pseudonym(mapper, rows[i].v.pseudonym)
                    = rows[i].v.original

(***************************************************************************)
(* Properties of single requests, continued (specification SpecText).      *)
(***************************************************************************)
\* the request c with the detector that raises reporting nothing instead
WithoutThrower(c) ==
    [c EXCEPT !.env.throws = None,
              !.env.ner = IF c.env.throws = "ner" THEN [i \in DOMAIN @ |-> <<>>] ELSE @,
              !.env.ext = [i \in DOMAIN @ |->
                            SelectSeq(@[i], LAMBDA e : ExtractorOf(e.label) # c.env.throws)]]

\* C19 (as claimed): when one detector raises while a text is processed, the
\* request still returns a result that is no error result, and the output,
\* the entity count and the store are those of the same request with only
\* that detector's spans missing.
C19_FailSoftPerDetector ==
    [][(/\ pc = "idle" /\ pc' = "returned"
        /\ call'.op = "pseudonymize_text"
        /\ call'.env.throws # None)
       => LET expected == pseudonymize_text(sessions, WithoutThrower(call'))
          IN /\ ~result'.error
             /\ result'.pseudonymized = expected.result.pseudonymized
             /\ result'.entity_count = expected.result.entity_count
             /\ sessions' = expected.sessions]_vars

\* C20 (as claimed): when loading the model fails, the request is not aborted
\* and extract_entities returns, for each text, the spans of the fallback
\* matcher: the spans it returns when the model library is not available.
C20_LoadFailureFallsBack ==
    [][(/\ pc = "idle" /\ pc' = "returned"
        /\ call'.op = "pseudonymize_text"
        /\ call'.env.flair = "load_fails")
       => /\ ~result'.error
          /\ \A i \in DOMAIN call'.text.items :
                extract_entities(call'.text.items[i], call'.language,
                                 call'.env.ner[i], "load_fails", call'.env.throws)
                = extract_entities(call'.text.items[i], call'.language,
                                   call'.env.ner[i], "unavailable", call'.env.throws)]_vars

(***************************************************************************)
(* Concurrent requests (specification SpecRace): two threads, each serving *)
(* one request against the same TextPseudonymizer.  A step is one access   *)
(* to a dictionary of the store or of a mapper; the threads are switched   *)
(* between steps.  Here pc, call and result are functions of the thread:   *)
(* result[t] holds the local variables of thread t, and issued holds the   *)
(* store the threads started on.                                           *)
(***************************************************************************)
Threads == {1, 2}

\* The EntityMapper a thread holds: the one stored under the id of its
\* request, or ("own") one that is no longer in the store.
NoMapper == EntityMapper("<none>", "<none>")
NoLocals ==
    [ref |-> "none", own |-> NoMapper, absent |-> FALSE, counter |-> 0,
     pseudonym |-> <<>>, outcome |-> "none"]
entity_mapper(t) ==
    IF result[t].ref = "stored" THEN DictGet(sessions, call[t].session_id)
    ELSE result[t].own

\* the locals of all threads after thread t took the mapper stored under id
\* out of the store: a thread that holds that mapper keeps it as its own
Detach(t, id, locals) ==
    [u \in Threads |->
        IF u = t THEN locals
        ELSE IF result[u].ref = "stored" /\ call[u].session_id = id /\ DictHas(sessions, id)
        THEN [result[u] EXCEPT !.ref = "own", !.own = DictGet(sessions, id)]
        ELSE result[u]]

\* thread t moves to `next` with the mapper it holds changed to `mapper`
MapperStep(t, next, mapper, locals) ==
    /\ pc' = [pc EXCEPT ![t] = next]
    /\ IF result[t].ref = "stored"
       THEN /\ sessions' = DictPut(sessions, call[t].session_id, mapper)
            /\ result' = [result EXCEPT ![t] = locals]
       ELSE /\ sessions' = sessions
            /\ result' = [result EXCEPT ![t] = [locals EXCEPT !.own = mapper]]
    /\ UNCHANGED <<call, issued, created, ncalls, models, loads>>

\* thread t moves to `next` without writing to a mapper
LocalStep(t, next, locals) ==
    /\ pc' = [pc EXCEPT ![t] = next]
    /\ result' = [result EXCEPT ![t] = locals]
    /\ UNCHANGED <<sessions, call, issued, created, ncalls, models, loads>>

\* the values uuid4 returns to thread t
ThreadUUIDs(t) == IF t = 1 THEN SubSeq(UUIDStream, 2, 4) ELSE SubSeq(UUIDStream, 5, 8)

\* get_or_create_session: `if session_id not in self._sessions`
SessionCheck(t) ==
    /\ pc[t] = "check"
    /\ LET absent == ~DictHas(sessions, call[t].session_id)
       IN LocalStep(t, IF absent THEN "create" ELSE "fetch",
                    [result[t] EXCEPT !.absent = absent])

\* get_or_create_session: `self._sessions[session_id] = EntityMapper(session_id)`
SessionCreate(t) ==
    /\ pc[t] = "create"
    /\ pc' = [pc EXCEPT ![t] = "fetch"]
    /\ sessions' = DictPut(sessions, call[t].session_id,
                           EntityMapper(call[t].session_id, "uuid-1"))
    /\ result' = Detach(t, call[t].session_id, result[t])
    /\ UNCHANGED <<call, issued, created, ncalls, models, loads>>

\* get_or_create_session: `return self._sessions[session_id]` (KeyError when
\* the key has been deleted meanwhile), and get_session for the reading requests
SessionFetch(t) ==
    /\ pc[t] = "fetch"
    /\ IF DictHas(sessions, call[t].session_id)
       THEN LocalStep(t, CASE call[t].op = "pseudonymize_text" -> "lookup"
                           [] call[t].op = "import_mappings" -> "clear_tables"
                           [] OTHER -> "read",
                      [result[t] EXCEPT !.ref = "stored"])
       ELSE LocalStep(t, "done",
                      [result[t] EXCEPT !.outcome =
                            IF call[t].op \in {"pseudonymize_text", "import_mappings"}
                            THEN "raised" ELSE "not found"])

\* get_or_create_pseudonym: `if mapping_key in self._mappings: return ...`
Lookup(t) ==
    /\ pc[t] = "lookup"
    /\ LET mapping_key == MappingKey(call[t].entity_text, call[t].entity_type)
           mappings == entity_mapper(t).mappings
       IN IF DictHas(mappings, mapping_key)
          THEN LocalStep(t, "done",
                         [result[t] EXCEPT !.pseudonym = DictGet(mappings, mapping_key).pseudonym,
                                           !.outcome = "returned"])
          ELSE LocalStep(t, "load", result[t])

\* `self._type_counters[entity_type] += 1`, the read: a defaultdict stores 0
\* for a type it does not hold
CounterLoad(t) ==
    /\ pc[t] = "load"
    /\ LET mapper == entity_mapper(t)
           counter == DictGetOr(mapper.type_counters, call[t].entity_type, 0)
       IN MapperStep(t, "increment",
                     [mapper EXCEPT !.type_counters =
                            DictPut(@, call[t].entity_type, counter)],
                     [result[t] EXCEPT !.counter = counter])

\* `self._type_counters[entity_type] += 1`, the write
CounterStore(t) ==
    /\ pc[t] = "increment"
    /\ MapperStep(t, "generate",
                  [entity_mapper(t) EXCEPT !.type_counters =
                        DictPut(@, call[t].entity_type, result[t].counter + 1)],
                  result[t])

\* `pseudonym = self._generate_pseudonym(entity_type, self._type_counters[entity_type])`
Generate(t) ==
    /\ pc[t] = "generate"
    /\ LET mapper == entity_mapper(t)
           counter == DictGetOr(mapper.type_counters, call[t].entity_type, 0)
       IN MapperStep(t, "store",
                     [mapper EXCEPT !.type_counters =
                            DictPut(@, call[t].entity_type, counter)],
                     [result[t] EXCEPT !.pseudonym =
                            _generate_pseudonym(call[t].entity_type, counter)])

\* `self._mappings[mapping_key] = mapping`
StoreMapping(t) ==
    /\ pc[t] = "store"
    /\ LET mapper == entity_mapper(t)
           mapping == [original |-> call[t].entity_text,
                       pseudonym |-> result[t].pseudonym,
                       entity_type |-> call[t].entity_type,
                       session_id |-> mapper.session_id,
                       created_at |-> uuid4(ThreadUUIDs(t), mapper)]
       IN MapperStep(t, "reverse",
                     [mapper EXCEPT !.mappings =
                        DictPut(@, MappingKey(call[t].entity_text, call[t].entity_type),
                                mapping)],
                     result[t])

\* `self._reverse_mappings[pseudonym] = entity_text; return pseudonym`
StoreReverse(t) ==
    /\ pc[t] = "reverse"
    /\ MapperStep(t, "done",
                  [entity_mapper(t) EXCEPT !.reverse_mappings =
                        FnPut(@, result[t].pseudonym, call[t].entity_text)],
                  [result[t] EXCEPT !.outcome = "returned"])

\* delete_session: `if session_id in self._sessions`
DeleteCheck(t) ==
    /\ pc[t] = "delete_check"
    /\ IF DictHas(sessions, call[t].session_id)
       THEN LocalStep(t, "delete", result[t])
       ELSE LocalStep(t, "done", [result[t] EXCEPT !.outcome = "false"])

\* delete_session: `del self._sessions[session_id]` (KeyError when the key
\* has been deleted meanwhile)
DeleteKey(t) ==
    /\ pc[t] = "delete"
    /\ pc' = [pc EXCEPT ![t] = "done"]
    /\ sessions' = DictDel(sessions, call[t].session_id)
    /\ result' = Detach(t, call[t].session_id,
                        [result[t] EXCEPT !.outcome =
                            IF DictHas(sessions, call[t].session_id)
                            THEN "true" ELSE "raised"])
    /\ UNCHANGED <<call, issued, created, ncalls, models, loads>>

\* import_mappings: the three clear() calls and `self.session_id = ...`
ImportClear(t) ==
    /\ pc[t] = "clear_tables"
    /\ MapperStep(t, "rows",
                  [clear_mappings(entity_mapper(t)) EXCEPT
                        !.session_id = call[t].mappings_json.session_id],
                  result[t])

\* import_mappings: the loop over data["mappings"]
ImportStore(t) ==
    /\ pc[t] = "rows"
    /\ MapperStep(t, "counters",
                  ImportRows(entity_mapper(t), call[t].mappings_json.mappings,
                             ThreadUUIDs(t)).mapper,
                  result[t])

\* import_mappings: "Rebuild type counters"
ImportCounters(t) ==
    /\ pc[t] = "counters"
    /\ LET mapper == entity_mapper(t)
       IN MapperStep(t, "done",
                     [mapper EXCEPT !.type_counters =
                        RebuildCounters(@, DictValues(mapper.mappings))],
                     [result[t] EXCEPT !.outcome = "true"])

\* export_mappings and get_entity_mappings read the mapper found
ReadMapper(t) ==
    /\ pc[t] = "read"
    /\ LocalStep(t, "done", [result[t] EXCEPT !.outcome = "returned"])

\* the requests of the two threads: a text with one name, an import, a
\* deletion, an export, on one of two sessions
RaceIds == {"sess-A", "sess-B"}
RaceDoc == Doc("sess-A", <<DocRow(<<"B","o","b">>, <<"P","E","R","S","O","N","_","2">>, PER, "c-1")>>)
RaceCalls ==
    {[op |-> "pseudonymize_text", session_id |-> id, entity_text |-> text,
      entity_type |-> PER, mappings_json |-> None] :
        id \in RaceIds, text \in EntityTexts \cup {<<"B","o","b">>}}
    \cup {[op |-> op, session_id |-> id, entity_text |-> <<>>, entity_type |-> PER,
           mappings_json |-> IF op = "import_mappings" THEN RaceDoc ELSE None] :
            id \in RaceIds, op \in {"import_mappings", "clear_session", "export_mappings"}}

FirstStep(c) ==
    CASE c.op = "clear_session" -> "delete_check"
      [] c.op = "export_mappings" -> "fetch"
      [] OTHER -> "check"

\* the stores the requests arrive at: empty, or holding sessions in which Al
\* has been resolved
StoreWith(ids) ==
    [i \in DOMAIN ids |->
        [k |-> ids[i],
         v |-> get_or_create_pseudonym(EntityMapper(ids[i], "uuid-1"), <<"A","l">>, PER,
                                       UUIDStream).mapper]]
RaceStores == {StoreWith(<<>>), StoreWith(<<"sess-A">>), StoreWith(<<"sess-A", "sess-B">>)}

InitRace ==
    /\ sessions \in RaceStores
    /\ issued = sessions
    /\ call \in [Threads -> RaceCalls]
    /\ pc = [t \in Threads |-> FirstStep(call[t])]
    /\ result = [t \in Threads |-> NoLocals]
    /\ created = NoHistory
    /\ ncalls = 0
    /\ models = <<>>
    /\ loads = <<>>

NextRace ==
    \/ \E t \in Threads : SessionCheck(t)
    \/ \E t \in Threads : SessionCreate(t)
    \/ \E t \in Threads : SessionFetch(t)
    \/ \E t \in Threads : Lookup(t)
    \/ \E t \in Threads : CounterLoad(t)
    \/ \E t \in Threads : CounterStore(t)
    \/ \E t \in Threads : Generate(t)
    \/ \E t \in Threads : StoreMapping(t)
    \/ \E t \in Threads : StoreReverse(t)
    \/ \E t \in Threads : DeleteCheck(t)
    \/ \E t \in Threads : DeleteKey(t)
    \/ \E t \in Threads : ImportClear(t)
    \/ \E t \in Threads : ImportStore(t)
    \/ \E t \in Threads : ImportCounters(t)
    \/ \E t \in Threads : ReadMapper(t)

SpecRace == InitRace /\ [][NextRace]_vars

(***************************************************************************)
(* Properties of concurrent requests (specification SpecRace).             *)
(***************************************************************************)
\* both threads resolved a name on the mapper stored under the same id
BothResolved ==
    /\ call[1].session_id = call[2].session_id
    /\ \A t \in Threads :
        /\ call[t].op = "pseudonymize_text"
        /\ pc[t] = "done"
        /\ result[t].outcome = "returned"
        /\ result[t].ref = "stored"

\* the mapper the threads started on: the stored one, or a new one
MapperBefore(id) ==
    IF DictHas(issued, id) THEN DictGet(issued, id) ELSE EntityMapper(id, "uuid-1")
RaceKey(t) == MappingKey(call[t].entity_text, call[t].entity_type)
NewKeys ==
    {RaceKey(t) : t \in {u \in Threads :
        ~DictHas(MapperBefore(call[u].session_id).mappings, RaceKey(u))}}

\* C14 (as claimed): after two concurrent requests resolved a name each on
\* the same session, (a) two distinct new entities have distinct pseudonyms,
\* (b) the same entity has the same pseudonym in both requests, and (c) the
\* type counter has advanced by exactly the number of new keys.
C14_ConcurrentResolveIsExclusive ==
    BothResolved =>
        LET id == call[1].session_id IN
        /\ RaceKey(1) # RaceKey(2) /\ {RaceKey(1), RaceKey(2)} \subseteq NewKeys
            => result[1].pseudonym # result[2].pseudonym
        /\ RaceKey(1) = RaceKey(2) => result[1].pseudonym = result[2].pseudonym
        /\ DictGetOr(DictGet(sessions, id).type_counters, PER, 0)
            = DictGetOr(MapperBefore(id).type_counters, PER, 0) + Cardinality(NewKeys)

\* C15 (as claimed): while requests that resolve names are served, with no
\* clear_session and no import among them, a session is created only when
\* its id is absent (the list of sessions then grows by exactly that id), a
\* mapper holding mappings is never replaced by a new one, and every request
\* works on the mapper that is in the store.
C15_SessionCreatedOnce ==
    [][(\A t \in Threads : call[t].op = "pseudonymize_text")
       => /\ \A t \in Threads :
                pc[t] = "create" /\ pc'[t] = "fetch"
                => /\ ~DictHas(sessions, call[t].session_id)
                   /\ list_sessions(sessions')
                        = Append(list_sessions(sessions), call[t].session_id)
          /\ \A id \in DictKeys(sessions) :
                /\ DictHas(sessions', id)
                /\ RowsKept(DictGet(sessions, id), DictGet(sessions', id))
          /\ \A t \in Threads : result'[t].ref # "own"]_vars

\* C16: a step of a request on one session leaves every other session in the
\* store, with its mappings, reverse mappings, type counters and session_id
\* unchanged, adds no session under another id, and leaves the mapper held by
\* a request on another session as it is, however the steps of the two
\* requests are interleaved.
C16_SessionsDoNotInterfere ==
    [][\A t \in Threads :
        pc'[t] # pc[t]
        => /\ \A id \in (DictKeys(sessions) \cup DictKeys(sessions')) \ {call[t].session_id} :
                /\ DictHas(sessions, id) /\ DictHas(sessions', id)
                /\ DictGet(sessions', id) = DictGet(sessions, id)
           /\ \A u \in Threads :
                call[u].session_id # call[t].session_id => result'[u] = result[u]]_vars

\* an import into one session has finished while a request on another
\* session, which held a row before, is between storing its new row and
\* storing the reverse entry
C16_Witness ==
    /\ call[1].session_id # call[2].session_id
    /\ call[1].op = "import_mappings" /\ pc[1] = "done" /\ result[1].outcome = "true"
    /\ call[2].op = "pseudonymize_text" /\ pc[2] = "reverse"
    /\ DictHas(issued, call[2].session_id)
    /\ Len(DictGet(sessions, call[2].session_id).mappings) = 2
    /\ DictGet(sessions, call[1].session_id).mappings # <<>>

(***************************************************************************)
(* Validation of caller-supplied session ids (specification Spec).         *)
(***************************************************************************)
\* error_handling.py, validate_session_id: None passes; an id that is empty
\* after strip(), or whose length is outside 8..128, raises InvalidInputError.
\* The ids of the model carry no surrounding whitespace, so strip() keeps them.
validate_session_id(session_id) ==
    IF session_id = None THEN [raised |-> FALSE, session_id |-> None]
    ELSE IF session_id = "" THEN [raised |-> TRUE, session_id |-> session_id]
    ELSE IF Len(session_id) < 8 \/ Len(session_id) > 128
         THEN [raised |-> TRUE, session_id |-> session_id]
    ELSE [raised |-> FALSE, session_id |-> session_id]

\* C21 (as claimed): when pseudonymize_text or import_mappings has returned
\* from a call with an explicit session id that validate_session_id rejects
\* (length outside 8..128), the response is a failure and the store holds no
\* session under that id.
C21_ExplicitSessionIdsValidated ==
    (/\ pc = "returned"
     /\ call.op \in {"pseudonymize_text", "import_mappings"}
     /\ call.session_id # None
     /\ validate_session_id(call.session_id).raised)
    => /\ ~DictHas(sessions, call.session_id)
       /\ (call.op = "pseudonymize_text" => result.error)
       /\ (call.op = "import_mappings" => ~result.success)

(***************************************************************************)
(* Offset-based replacement on its own (specification SpecReplace): calls  *)
(* of _replace_entities_in_text with span lists in any order.              *)
(***************************************************************************)
\* "Al al PERSON_1 AL": a name in three casings and a word that reads like a
\* pseudonym
ReplaceText == <<"A","l"," ","a","l"," ","P","E","R","S","O","N","_","1"," ","A","L">>

\* the spans a merged list is drawn from: the three names, the word, and one
\* span that covers the first two names
ReplaceSpans ==
    {Span(ReplaceText, PER, 0, 2, 80), Span(ReplaceText, PER, 3, 5, 80),
     Span(ReplaceText, LOC, 6, 14, 80), Span(ReplaceText, PER, 15, 17, 80),
     Span(ReplaceText, PER, 0, 5, 80)}

\* a new session, and one in which Bob is PERSON_1 already
ReplaceMappers ==
    {EntityMapper("sess-A", "uuid-1"),
     get_or_create_pseudonym(EntityMapper("sess-A", "uuid-1"), <<"B","o","b">>, PER,
                             UUIDStream).mapper}

ReplaceEntitiesInText ==
    /\ pc = "idle"
    /\ \E entities \in SeqsUpTo(ReplaceSpans, MaxSpans), mapper \in ReplaceMappers,
          preserve_formatting \in BOOLEAN :
        \E out \in {_replace_entities_in_text(ReplaceText, entities, mapper,
                                              preserve_formatting, UUIDStream)} :
        /\ call' = [op |-> "_replace_entities_in_text", text |-> ReplaceText,
                    entities |-> entities, entity_mapper |-> mapper,
                    preserve_formatting |-> preserve_formatting]
        /\ result' = [op |-> "_replace_entities_in_text", text |-> out.text,
                      mapper |-> out.mapper]
    /\ pc' = "returned"
    /\ UNCHANGED <<sessions, issued, created, ncalls, models, loads>>

NextReplace == ReplaceEntitiesInText \/ Respond

SpecReplace == Init /\ [][NextReplace]_vars

\* a span list over a text: every span a non-empty range of the text, no two
\* spans sharing a character
NonOverlapping(text, entities) ==
    /\ \A i \in DOMAIN entities :
        0 <= entities[i].start /\ entities[i].start < entities[i].end
                               /\ entities[i].end <= Len(text)
    /\ \A i, j \in DOMAIN entities :
        i # j => \/ entities[i].end <= entities[j].start
                 \/ entities[j].end <= entities[i].start

\* the pseudonym of a span in a mapper, with the casing adjustment if asked for
WrittenFor(entity, mapper, preserve_formatting) ==
    LET pseudonym == DictGet(mapper.mappings,
                             MappingKey(entity.text, entity.label)).pseudonym
    IN IF preserve_formatting THEN PreserveCase(entity.text, pseudonym) ELSE pseudonym

\* the text from offset pos on, read left to right: what lies between the
\* spans as it is, each span as its pseudonym
RECURSIVE Rewritten(_, _, _, _, _)
Rewritten(text, ascending, pos, mapper, preserve_formatting) ==
    IF ascending = <<>> THEN SubSeq(text, pos + 1, Len(text))
    ELSE SubSeq(text, pos + 1, Head(ascending).start)
         \o WrittenFor(Head(ascending), mapper, preserve_formatting)
         \o Rewritten(text, Tail(ascending), Head(ascending).end, mapper,
                      preserve_formatting)

\* C22: for a list of non-overlapping spans over a text,
\* _replace_entities_in_text returns the text with the range [start, end) of
\* each span replaced by that span's (case-adjusted, if asked for) pseudonym
\* and every character outside the spans unchanged and in order.
C22_OffsetSafeReplacement ==
    (/\ pc = "returned"
     /\ call.op = "_replace_entities_in_text"
     /\ NonOverlapping(call.text, call.entities))
    => result.text = Rewritten(call.text, SortByStart(call.entities), 0, result.mapper,
                               call.preserve_formatting)

\* three spans given out of order, among them the word that reads like a
\* pseudonym, have been replaced by pseudonyms of other lengths
C22_Witness ==
    /\ pc = "returned"
    /\ call.op = "_replace_entities_in_text"
    /\ NonOverlapping(call.text, call.entities)
    /\ Len(call.entities) = 3
    /\ call.entities[1].start < call.entities[2].start
    /\ call.entities[3].start < call.entities[1].start
    /\ \E i \in DOMAIN call.entities : call.entities[i].label = LOC
    /\ Len(result.text) > Len(call.text)
    /\ call.preserve_formatting

(***************************************************************************)
(* Properties of the session store, further (specification Spec).          *)
(***************************************************************************)
\* the entity types a mapper knows: those of its rows and of its counters
TypesOf(mapper) ==
    {mapper.mappings[k].v.entity_type : k \in DOMAIN mapper.mappings}
        \cup DictKeys(mapper.type_counters)

RowsOfType(mapper, t) ==
    Cardinality({k \in DOMAIN mapper.mappings : mapper.mappings[k].v.entity_type = t})

\* C23 (as claimed): in every state of every stored session, the counter of
\* each entity type equals the number of stored mappings of that type, and
\* the by_type statistics of export_mappings equal those of get_statistics.
C23_CountersCountMappings ==
    \A i \in DOMAIN sessions :
        LET mapper == sessions[i].v IN
        /\ \A t \in TypesOf(mapper) :
            DictGetOr(mapper.type_counters, t, 0) = RowsOfType(mapper, t)
        /\ \A t \in TypesOf(mapper) :
            DictGetOr(export_mappings(mapper).statistics.by_type, t, 0)
                = DictGetOr(get_statistics(mapper).by_type, t, 0)

(***************************************************************************)
(* Concurrent use of the recognizer (specification SpecLoad): two threads  *)
(* call NERPipeline.extract_entities or unload_models on one pipeline.  A  *)
(* step is one access to the model cache; pc, call and result are          *)
(* functions of the thread, as in SpecRace.                                *)
(***************************************************************************)
\* `self._model_configs.get(language, self._model_configs["en"])`
ModelConfig(language) ==
    IF language = "de" THEN "flair/ner-german" ELSE "flair/ner-english"

LoadCalls ==
    {[op |-> "extract_entities", language |-> lang] : lang \in SUPPORTED_LANGUAGES}
    \cup {[op |-> "unload_models", language |-> None]}

FirstLoadStep(c) == IF c.op = "unload_models" THEN "unload" ELSE "model_check"

NoModel == [outcome |-> "none", model |-> None]

\* _load_model: `if language not in self._models`
ModelCheck(t) ==
    /\ pc[t] = "model_check"
    /\ pc' = [pc EXCEPT ![t] = IF DictHas(models, call[t].language)
                               THEN "model_return" ELSE "model_load"]
    /\ UNCHANGED <<sessions, call, result, issued, created, ncalls, models, loads>>

\* _load_model: SequenceTagger.load(model_name), model.to(device) and
\* `self._models[language] = model`
ModelLoad(t) ==
    /\ pc[t] = "model_load"
    /\ pc' = [pc EXCEPT ![t] = "model_return"]
    /\ models' = DictPut(models, call[t].language, ModelConfig(call[t].language))
    /\ loads' = DictPut(loads, call[t].language,
                        DictGetOr(loads, call[t].language, 0) + 1)
    /\ UNCHANGED <<sessions, call, result, issued, created, ncalls>>

\* _load_model: `return self._models[language]`; a KeyError (the cache was
\* emptied meanwhile) is caught by extract_entities, which returns []
ModelReturn(t) ==
    /\ pc[t] = "model_return"
    /\ pc' = [pc EXCEPT ![t] = "done"]
    /\ result' = [result EXCEPT ![t] =
                    IF DictHas(models, call[t].language)
                    THEN [outcome |-> "predicted",
                          model |-> DictGet(models, call[t].language)]
                    ELSE [outcome |-> "failed", model |-> None]]
    /\ UNCHANGED <<sessions, call, issued, created, ncalls, models, loads>>

\* unload_models: every key deleted, the cache cleared
UnloadModels(t) ==
    /\ pc[t] = "unload"
    /\ pc' = [pc EXCEPT ![t] = "done"]
    /\ models' = <<>>
    /\ loads' = <<>>
    /\ result' = [result EXCEPT ![t] = [outcome |-> "unloaded", model |-> None]]
    /\ UNCHANGED <<sessions, call, issued, created, ncalls>>

\* a thread that has answered takes the next request
NextRequest(t) ==
    /\ pc[t] = "done"
    /\ ncalls < MaxCalls
    /\ \E c \in LoadCalls :
        /\ call' = [call EXCEPT ![t] = c]
        /\ pc' = [pc EXCEPT ![t] = FirstLoadStep(c)]
    /\ result' = [result EXCEPT ![t] = NoModel]
    /\ ncalls' = ncalls + 1
    /\ UNCHANGED <<sessions, issued, created, models, loads>>

InitLoad ==
    /\ sessions = <<>>
    /\ issued = NoHistory
    /\ created = NoHistory
    /\ ncalls = 0
    /\ models = <<>>
    /\ loads = <<>>
    /\ call \in [Threads -> LoadCalls]
    /\ pc = [t \in Threads |-> FirstLoadStep(call[t])]
    /\ result = [t \in Threads |-> NoModel]

NextLoad ==
    \/ \E t \in Threads : ModelCheck(t)
    \/ \E t \in Threads : ModelLoad(t)
    \/ \E t \in Threads : ModelReturn(t)
    \/ \E t \in Threads : UnloadModels(t)
    \/ \E t \in Threads : NextRequest(t)

SpecLoad == InitLoad /\ [][NextLoad]_vars

\* C24 (as claimed): under every interleaving of concurrent extract_entities
\* calls, the model of each language code is loaded at most once between two
\* unload_models calls.
C24_ModelLoadedOnce ==
    \A language \in DictKeys(loads) : DictGet(loads, language) <= 1

(***************************************************************************)
(* extended_patterns.py: the extractors of ExtendedPatternMatcher, one by  *)
(* one (specification SpecPatterns).  A regex match is [start, end] over   *)
(* the source text, match.group() the characters in between; what the      *)
(* validating library says about a match comes with the match.             *)
(***************************************************************************)
CREDIT_CARD == <<"C","R","E","D","I","T","_","C","A","R","D">>
TAX_ID == <<"T","A","X","_","I","D">>
SOCIAL_SECURITY == <<"S","O","C","I","A","L","_","S","E","C","U","R","I","T","Y">>

\* the longest digit string given to _luhn_check on its own
MaxDigits == 3

\* match.group()
Group(text, match) == SubSeq(text, match.start + 1, match.end)

\* str.replace(c, ""), c one character
Without(s, c) == SelectSeq(s, LAMBDA x : x # c)

\* str.isdigit()
IsDigitStr(s) == s # <<>> /\ \A i \in DOMAIN s : IsDigitChar(s[i])

\* _extract_phone_numbers: match.valid is "valid", "invalid"
\* (is_valid_number false) or "unparsable" (NumberParseException)
_extract_phone_numbers(text, language, matches) ==
    LET kept == SelectSeq(matches, LAMBDA match : match.valid = "valid")
    IN [i \in DOMAIN kept |->
            [text |-> Strip(Group(text, kept[i])), label |-> PHONE,
             start |-> kept[i].start, end |-> kept[i].end, confidence |-> 90]]

\* `parsed_date.year > 1900 and parsed_date.year < 2100`
YearAccepted(year) == year > 1900 /\ year < 2100

\* _extract_dates: match.parsed is what dateparser.parse does with the
\* stripped match: kind "None", kind "raises", or kind "date" with its year
_extract_dates(text, language, matches) ==
    LET kept == SelectSeq(matches, LAMBDA match :
                    /\ match.parsed.kind = "date"
                    /\ YearAccepted(match.parsed.year))
    IN [i \in DOMAIN kept |->
            [text |-> Strip(Group(text, kept[i])), label |-> DATE,
             start |-> kept[i].start, end |-> kept[i].end, confidence |-> 85]]

\* _luhn_check, a doubled digit left as it is when above 9, for comparison
LuhnDoubledRaw(digit) == 2 * digit

\* _luhn_check: `digits[i] *= 2` and `digits[i] -= 9` when above 9
LuhnDoubled(digit) == IF 2 * digit > 9 THEN 2 * digit - 9 ELSE 2 * digit

\* _luhn_check, `for i in range(len(digits) - 2, -1, -1)`; i is the Python
\* index
RECURSIVE LuhnLoop(_, _, _)
LuhnLoop(digits, i, checksum) ==
    IF i < 0 THEN checksum
    ELSE LuhnLoop(digits, i - 1,
                  checksum + IF (Len(digits) - i) % 2 = 0
                             THEN LuhnDoubled(digits[i + 1]) ELSE digits[i + 1])

_luhn_check(card_number) ==
    IF ~IsDigitStr(card_number) THEN FALSE
    ELSE LET digits == [i \in DOMAIN card_number |-> IndexOf(Digits, card_number[i]) - 1]
         IN (LuhnLoop(digits, Len(digits) - 2, 0) + digits[Len(digits)]) % 10 = 0

_validate_pattern_match(text, entity_type) ==
    CASE entity_type = IBAN ->
            /\ Len(text) >= 15 /\ Len(text) <= 34
            /\ \A i \in 1..2 : IsCasedChar(text[i])
      [] entity_type = CREDIT_CARD -> _luhn_check(Without(Without(text, "-"), " "))
      [] entity_type = TAX_ID -> Len(Without(text, "/")) >= 8
      [] entity_type = SOCIAL_SECURITY ->
            Len(Without(text, "-")) = 9 /\ IsDigitStr(Without(text, "-"))
      [] OTHER -> TRUE

\* _extract_pattern_entities: match.entity_type is the type whose pattern
\* matched; the matches come in the order of the patterns
_extract_pattern_entities(text, matches) ==
    LET kept == SelectSeq(matches, LAMBDA match :
                    _validate_pattern_match(Group(text, match), match.entity_type))
    IN [i \in DOMAIN kept |->
            [text |-> Group(text, kept[i]), label |-> kept[i].entity_type,
             start |-> kept[i].start, end |-> kept[i].end, confidence |-> 80]]

(***************************************************************************)
(* Inputs of SpecPatterns.                                                 *)
(***************************************************************************)
Match(start, end) == [start |-> start, end |-> end]

\* "ab 030 1234567 cd": the first phone pattern matches " 030 1234567 ", the
\* surrounding blanks included; "+49301234567": the first two patterns match
\* the whole text; "12 34 56 78": matched, no valid number
PhoneSamples ==
    {[text |-> <<"a","b"," ","0","3","0"," ","1","2","3","4","5","6","7"," ","c","d">>,
      matches |-> <<Match(2, 15) @@ [valid |-> "valid"]>>],
     [text |-> <<"+","4","9","3","0","1","2","3","4","5","6","7">>,
      matches |-> <<Match(0, 12) @@ [valid |-> "valid"],
                    Match(0, 12) @@ [valid |-> "valid"]>>]}
    \cup {[text |-> <<"1","2"," ","3","4"," ","5","6"," ","7","8">>,
           matches |-> <<Match(0, 11) @@ [valid |-> v]>>] : v \in {"invalid", "unparsable"}}

\* the years around the two ends of the accepted range
DateYears == {1899, 1900, 1901, 2000, 2099, 2100}

\* "1.1.<year>" alone and "am 1.1.<year>" after a word; "39.19.2000", which
\* the first date pattern matches and no date parser accepts
DateSamples ==
    {[text |-> <<"1",".","1",".">> \o IntToStr(y),
      matches |-> <<Match(0, 8) @@ [parsed |-> [kind |-> "date", year |-> y]]>>] :
        y \in DateYears}
    \cup {[text |-> <<"a","m"," ","1",".","1",".">> \o IntToStr(y),
           matches |-> <<Match(3, 11) @@ [parsed |-> [kind |-> "date", year |-> y]]>>] :
            y \in DateYears}
    \cup {[text |-> <<"3","9",".","1","9",".","2","0","0","0">>,
           matches |-> <<Match(0, 10) @@ [parsed |-> [kind |-> k, year |-> 0]]>>] :
            k \in {"None", "raises"}}

\* card-shaped texts: "4111 1111 1111 1111" and "4111-1111-1111-1111" (Luhn
\* valid), "4111 1111 1111 1112" (not valid), "4111111111111111" (matched by
\* both card patterns), and "12-345-6789" as a social security number
PatternSamples ==
    {[text |-> <<"4","1","1","1",sep,"1","1","1","1",sep,"1","1","1","1",sep,"1","1","1",last>>,
      matches |-> <<Match(0, 19) @@ [entity_type |-> CREDIT_CARD]>>] :
        sep \in {" ", "-"}, last \in {"1", "2"}}
    \cup {[text |-> <<"4","1","1","1","1","1","1","1","1","1","1","1","1","1","1",last>>,
           matches |-> <<Match(0, 16) @@ [entity_type |-> CREDIT_CARD],
                         Match(0, 16) @@ [entity_type |-> CREDIT_CARD]>>] :
            last \in {"1", "2"}}
    \cup {[text |-> <<"1","2","3","-","4","5","-","6","7","8","9">>,
           matches |-> <<Match(0, 11) @@ [entity_type |-> SOCIAL_SECURITY]>>]}

\* what _luhn_check is given on its own: digits and the separator
LuhnArgs == SeqsUpTo(Range(Digits) \cup {"-"}, MaxDigits)

ExtractPhoneNumbers ==
    /\ pc = "idle"
    /\ \E sample \in PhoneSamples, language \in SUPPORTED_LANGUAGES :
        /\ call' = [op |-> "_extract_phone_numbers", text |-> sample.text,
                    language |-> language, matches |-> sample.matches]
        /\ result' = [op |-> "_extract_phone_numbers",
                      entities |-> _extract_phone_numbers(sample.text, language,
                                                          sample.matches)]
    /\ pc' = "returned"
    /\ UNCHANGED <<sessions, issued, created, ncalls, models, loads>>

ExtractDates ==
    /\ pc = "idle"
    /\ \E sample \in DateSamples, language \in SUPPORTED_LANGUAGES :
        /\ call' = [op |-> "_extract_dates", text |-> sample.text,
                    language |-> language, matches |-> sample.matches]
        /\ result' = [op |-> "_extract_dates",
                      entities |-> _extract_dates(sample.text, language, sample.matches)]
    /\ pc' = "returned"
    /\ UNCHANGED <<sessions, issued, created, ncalls, models, loads>>

ExtractPatternEntities ==
    /\ pc = "idle"
    /\ \E sample \in PatternSamples :
        /\ call' = [op |-> "_extract_pattern_entities", text |-> sample.text,
                    matches |-> sample.matches]
        /\ result' = [op |-> "_extract_pattern_entities",
                      entities |-> _extract_pattern_entities(sample.text, sample.matches)]
    /\ pc' = "returned"
    /\ UNCHANGED <<sessions, issued, created, ncalls, models, loads>>

LuhnCheck ==
    /\ pc = "idle"
    /\ \E card_number \in LuhnArgs :
        /\ call' = [op |-> "_luhn_check", card_number |-> card_number]
        /\ result' = [op |-> "_luhn_check", valid |-> _luhn_check(card_number)]
    /\ pc' = "returned"
    /\ UNCHANGED <<sessions, issued, created, ncalls, models, loads>>

NextPatterns ==
    \/ ExtractPhoneNumbers
    \/ ExtractDates
    \/ ExtractPatternEntities
    \/ LuhnCheck
    \/ Respond

SpecPatterns == Init /\ [][NextPatterns]_vars

(***************************************************************************)
(* Properties of the extractors (specification SpecPatterns).              *)
(***************************************************************************)
\* C25 (as claimed): a date match becomes a DATE entity if and only if it
\* parses to a date whose year y satisfies 1900 <= y < 2100; year 1900 is
\* accepted, year 2100 rejected, a match that does not parse gives no entity.
C25_DateYearRange ==
    (pc = "returned" /\ call.op = "_extract_dates") =>
        \A i \in DOMAIN call.matches :
            (\E k \in DOMAIN result.entities :
                /\ result.entities[k].start = call.matches[i].start
                /\ result.entities[k].end = call.matches[i].end
                /\ result.entities[k].label = DATE)
            <=> /\ call.matches[i].parsed.kind = "date"
                /\ 1900 <= call.matches[i].parsed.year
                /\ call.matches[i].parsed.year < 2100

\* the Luhn checksum of a digit string, read from the right: the digits at
\* even positions doubled and reduced by 9 when above 9
LuhnSum(card_number) ==
    LET n == Len(card_number)
        value(k) == IndexOf(Digits, card_number[n + 1 - k]) - 1
        term(k) == IF k % 2 = 1 THEN value(k)
                   ELSE IF 2 * value(k) > 9 THEN 2 * value(k) - 9 ELSE 2 * value(k)
        sum[k \in 0..n] == IF k = 0 THEN 0 ELSE sum[k - 1] + term(k)
    IN sum[n]

LuhnValid(s) == IsDigitStr(s) /\ LuhnSum(s) % 10 = 0

\* C26: _luhn_check(s) is true exactly when s is a non-empty string of
\* decimal digits whose Luhn checksum is 0 modulo 10, for strings of either
\* parity, and every CREDIT_CARD entity emitted has a text that passes the
\* check once '-' and ' ' are removed.
C26_LuhnCheckIsLuhn ==
    /\ (pc = "returned" /\ call.op = "_luhn_check")
            => (result.valid <=> LuhnValid(call.card_number))
    /\ (pc = "returned" /\ call.op = "_extract_pattern_entities")
            => \A k \in DOMAIN result.entities :
                result.entities[k].label = CREDIT_CARD
                    => LuhnValid(Without(Without(result.entities[k].text, "-"), " "))

\* a three-digit string whose doubled middle digit exceeds 9 has been
\* accepted, and so has a card number written with separators
C26_Witness ==
    /\ pc = "returned"
    /\ \/ /\ call.op = "_luhn_check"
          /\ Len(call.card_number) = 3
          /\ IsDigitStr(call.card_number)
          /\ call.card_number[2] \in {"5", "6", "7", "8", "9"}
          /\ result.valid
       \/ /\ call.op = "_extract_pattern_entities"
          /\ \E k \in DOMAIN result.entities :
                /\ result.entities[k].label = CREDIT_CARD
                /\ \E i \in DOMAIN result.entities[k].text :
                    result.entities[k].text[i] = "-"

\* C29 (as claimed): every entity emitted by a pattern extractor for a source
\* text S has 0 <= start < end <= len(S) and text = S[start:end], also for a
\* PHONE or DATE match that begins or ends with whitespace.
C29_EntityTextIsTheSpan ==
    (pc = "returned" /\ call.op \in {"_extract_phone_numbers", "_extract_dates",
                                     "_extract_pattern_entities"})
    => \A k \in DOMAIN result.entities :
        LET entity == result.entities[k] IN
        /\ 0 <= entity.start /\ entity.start < entity.end
        /\ entity.end <= Len(call.text)
        /\ entity.text = SubSeq(call.text, entity.start + 1, entity.end)

(***************************************************************************)
(* Properties of the session store, the keys (specification Spec).         *)
(***************************************************************************)
\* C27 (as claimed): in every state of the store, each stored mapper's
\* session_id equals the key under which it is stored.
C27_SessionIdIsTheKey ==
    \A i \in DOMAIN sessions : sessions[i].v.session_id = sessions[i].k

(***************************************************************************)
(* Properties of overlap resolution, continued (specification SpecMerge).  *)
(***************************************************************************)
\* two spans share a character
Intersect(a, b) == a.start < b.end /\ b.start < a.end

\* C28 (as claimed): every span given to _combine_entities or
\* _remove_overlaps overlaps at least one span of the list returned, also in
\* a chain of spans in which each overlaps only its neighbour.
C28_EverySpanCovered ==
    (pc = "done" /\ result.op \in {"_combine_entities", "_remove_overlaps"}) =>
        LET given == IF result.op = "_combine_entities"
                     THEN call.ner_entities \o call.extended_entities
                     ELSE call.extended_entities
        IN \A i \in DOMAIN given :
            \E k \in DOMAIN result.entities : Intersect(given[i], result.entities[k])

\* C30 (as claimed): when import_mappings returns false, the mappings, the
\* reverse mappings, the type counters and the session_id of the target
\* session are what they were before the call.
C30_FailedImportChangesNothing ==
    [][(/\ pc = "idle" /\ pc' = "returned"
        /\ call'.op = "import_mappings"
        /\ ~result'.success
        /\ DictHas(sessions, result'.id))
       => DictGet(sessions', result'.id) = DictGet(sessions, result'.id)]_vars

====
